---------------------------- MODULE Spec2Model ----------------------------
(***************************************************************************)
(* A model of the image ingestion pipeline of meme2xyz: the ImageProcessor *)
(* class (image-processor.js), the entry points that drive it (the         *)
(* stand-alone main script and the UploadServer) and the file system it    *)
(* reads and writes.                                                       *)
(*                                                                         *)
(* Strings whose characters matter (file names, paths) are sequences of    *)
(* one-character strings, so that path.extname, path.basename and the      *)
(* regular expressions of generateImageName are computed, not assumed.     *)
(***************************************************************************)
EXTENDS Integers, Sequences, FiniteSets, TLC

(***************************************************************************)
(* Characters                                                              *)
(***************************************************************************)
LowerOf ==
    [A |-> "a", B |-> "b", C |-> "c", D |-> "d", E |-> "e", F |-> "f",
     G |-> "g", H |-> "h", I |-> "i", J |-> "j", K |-> "k", L |-> "l",
     M |-> "m", N |-> "n", O |-> "o", P |-> "p", Q |-> "q", R |-> "r",
     S |-> "s", T |-> "t", U |-> "u", V |-> "v", W |-> "w", X |-> "x",
     Y |-> "y", Z |-> "z"]

LowerLetters == {LowerOf[c] : c \in DOMAIN LowerOf}

Digits == {"0", "1", "2", "3", "4", "5", "6", "7", "8", "9"}

\* String.prototype.toLowerCase, one character at a time.
ToLowerCase(s) ==
    [i \in 1..Len(s) |-> IF s[i] \in DOMAIN LowerOf THEN LowerOf[s[i]] ELSE s[i]]

(***************************************************************************)
(* path.basename / path.extname / path.join (POSIX flavour)                *)
(***************************************************************************)
\* Index of the last occurrence of character c in s, 0 when there is none.
LastIndexOf(s, c) ==
    LET hits == {i \in 1..Len(s) : s[i] = c}
    IN  IF hits = {} THEN 0 ELSE CHOOSE i \in hits : \A j \in hits : j <= i

\* path.basename(p): what follows the last "/".
Basename(p) == SubSeq(p, LastIndexOf(p, "/") + 1, Len(p))

\* path.extname(p): from the last "." of the basename to its end; empty when
\* there is no ".", when the only "." is the first character, or for "..".
Extname(p) ==
    LET b == Basename(p)
        d == LastIndexOf(b, ".")
    IN  IF d = 0 \/ d = 1 \/ b = <<".", ".">> THEN <<>> ELSE SubSeq(b, d, Len(b))

\* path.basename(p, ext): the basename without the suffix ext.
BasenameWithout(p, ext) ==
    LET b == Basename(p)
        n == Len(b) - Len(ext)
    IN  IF ext # <<>> /\ n > 0 /\ SubSeq(b, n + 1, Len(b)) = ext
        THEN SubSeq(b, 1, n)
        ELSE b

\* path.join(dir, file) for a one-segment directory and a file name.
PathJoin(dir, file) == dir \o <<"/">> \o file

(***************************************************************************)
(* ImageProcessor: constructor constants                                   *)
(***************************************************************************)
\* this.uploadsDir, as path.join and chokidar normalise "./uploads".
uploadsDir == <<"u", "p", "l", "o", "a", "d", "s">>

supportedFormats ==
    { <<".", "j", "p", "g">>, <<".", "j", "p", "e", "g">>, <<".", "p", "n", "g">>,
      <<".", "g", "i", "f">>, <<".", "w", "e", "b", "p">>, <<".", "b", "m", "p">>,
      <<".", "t", "i", "f", "f">> }

maxDimensions == [width |-> 1024, height |-> 768]

thumbnailDimensions == [width |-> 400, height |-> 300]

\* const outputExt = '.jpg'
outputExt == <<".", "j", "p", "g">>

(***************************************************************************)
(* ImageProcessor.isImageFile / generateImageName                          *)
(***************************************************************************)
isImageFile(filePath) == ToLowerCase(Extname(filePath)) \in supportedFormats

\* .replace(/[^a-z0-9-]/g, '-')
ReplaceNonAlnum(s) ==
    [i \in 1..Len(s) |->
        IF s[i] \in LowerLetters \cup Digits \cup {"-"} THEN s[i] ELSE "-"]

\* .replace(/-+/g, '-')
RECURSIVE CollapseHyphens(_)
CollapseHyphens(s) ==
    IF Len(s) <= 1 THEN s
    ELSE IF s[1] = "-" /\ s[2] = "-" THEN CollapseHyphens(Tail(s))
    ELSE <<s[1]>> \o CollapseHyphens(Tail(s))

\* .replace(/^-|-$/g, ''): one leading and one trailing hyphen go.
TrimHyphens(s) ==
    LET a == IF Len(s) > 0 /\ s[1] = "-" THEN Tail(s) ELSE s
    IN  IF Len(a) > 0 /\ a[Len(a)] = "-" THEN SubSeq(a, 1, Len(a) - 1) ELSE a

generateImageName(filePath) ==
    LET baseName == BasenameWithout(filePath, Extname(filePath))
    IN  TrimHyphens(CollapseHyphens(ReplaceNonAlnum(ToLowerCase(baseName))))

(***************************************************************************)
(* ImageProcessor.processImage: the dimensions of the two derivatives      *)
(***************************************************************************)
\* Whether num/den lies exactly half way between two integers.
IsTie(num, den) == (2 * num) % (2 * den) = den

\* A variant of MathRound that drops the fraction (Math.floor).
mutant_MathRound(num, den, tieUp) == num \div den

\* Math.round(num/den) for num >= 0, den > 0.  The code divides in double
\* precision: away from a tie the double is far closer to the quotient than
\* to any half-integer and Math.round gives the nearest integer; exactly at a
\* tie the double may fall on either side of the half, so the result there is
\* either neighbour, chosen by tieUp.
MathRound(num, den, tieUp) ==
    IF IsTie(num, den) /\ ~tieUp THEN num \div den
    ELSE (2 * num + den) \div (2 * den)

\* aspectRatio = width / height is exact in double precision when the
\* quotient is a dyadic fraction; the value rounded from it is then exact as
\* well, and a tie goes up as Math.round has it.  Otherwise the double is the
\* quotient's neighbour, and the value at a tie falls on either side.
ExactRatio(w, h) == \E k \in 0..11 : (w * 2^k) % h = 0

TieOutcomes(w, h) == IF ExactRatio(w, h) THEN {TRUE} ELSE BOOLEAN

\* A variant of OptimizedSize without the test of the source against the box.
mutant_OptimizedSize(w, h, tieUp) ==
    LET maxWidth == maxDimensions.width
        maxHeight == maxDimensions.height
    IN  IF w * maxHeight > maxWidth * h
        THEN [width |-> maxWidth, height |-> MathRound(maxWidth * h, w, tieUp)]
        ELSE [width |-> MathRound(maxHeight * w, h, tieUp), height |-> maxHeight]

\* Lines 130-140: the optimized box.  aspectRatio > maxWidth / maxHeight
\* compares two correctly rounded quotients of small integers, which order as
\* the exact fractions do.
OptimizedSize(w, h, tieUp) ==
    LET maxWidth == maxDimensions.width
        maxHeight == maxDimensions.height
    IN  IF w > maxWidth \/ h > maxHeight
        THEN IF w * maxHeight > maxWidth * h
             THEN [width |-> maxWidth, height |-> MathRound(maxWidth * h, w, tieUp)]
             ELSE [width |-> MathRound(maxHeight * w, h, tieUp), height |-> maxHeight]
        ELSE [width |-> w, height |-> h]

\* Lines 142-147: the thumbnail box (no test of the source against the box).
ThumbnailSize(w, h, tieUp) ==
    LET thumbWidth == thumbnailDimensions.width
        thumbHeight == thumbnailDimensions.height
    IN  IF w * thumbHeight > thumbWidth * h
        THEN [width |-> thumbWidth, height |-> MathRound(thumbWidth * h, w, tieUp)]
        ELSE [width |-> MathRound(thumbHeight * w, h, tieUp), height |-> thumbHeight]

\* Lines 180-184: the dimensions field of the record.
Dimensions(w, h, tieOpt, tieThumb) ==
    [original  |-> [width |-> w, height |-> h],
     optimized |-> OptimizedSize(w, h, tieOpt),
     thumbnail |-> ThumbnailSize(w, h, tieThumb)]

\* sharp(...).resize(width, height, ...) rejects a width or height that is
\* not a positive integer.
ResizeAccepts(size) == size.width >= 1 /\ size.height >= 1

(***************************************************************************)
(* The uploads directory and the images in it                              *)
(***************************************************************************)
\* File names that occur in the uploads directory.
aPng == <<"a", ".", "p", "n", "g">>

aJpgUpper == <<"A", ".", "J", "P", "G">>

b1Gif == <<"b", "_", "1", ".", "g", "i", "f">>

notesTxt == <<"n", ".", "t", "x", "t">>

hiddenPng == <<".", "h", ".", "p", "n", "g">>

FileNames == {aPng, aJpgUpper, b1Gif, notesTxt, hiddenPng}

\* The populations of the uploads directory that are explored: a run draws
\* one of them and creates, modifies and deletes files of it only.
Worlds == { {aPng, aJpgUpper}, {aPng, b1Gif}, {notesTxt, hiddenPng} }

\* What a file holds: an image the decoder reads (its pixel size and byte
\* count), or bytes that are no image.
ContentOf ==
    [small   |-> [decodable |-> TRUE,  width |-> 200,  height |-> 100,  size |-> 1000],
     large   |-> [decodable |-> TRUE,  width |-> 1600, height |-> 1200, size |-> 2000],
     corrupt |-> [decodable |-> FALSE, width |-> 0,    height |-> 0,    size |-> 500]]

Contents == DOMAIN ContentOf

\* Byte count of the JPEG the encoder writes for a source (optimized,
\* thumbnail): fixed per source content.
EncodedBytes ==
    [small   |-> [optimized |-> 400,  thumbnail |-> 100],
     large   |-> [optimized |-> 1000, thumbnail |-> 150]]

NoFile == [exists |-> FALSE]

UploadedFile(c, t) == [exists |-> TRUE, content |-> c, mtime |-> t]

\* undefined and null, where a record or a date is expected.
Undefined == [undefined |-> TRUE]

Null == [null |-> TRUE]

\* No derivative at a path of an output directory.
NoContent == "none"

(***************************************************************************)
(* Bounds                                                                  *)
(***************************************************************************)
\* What the environment does in one run: files created, modified or deleted
\* in the uploads directory, POST requests received, writes that fail.
MaxFsOps == 2

\* Watcher and HTTP handlers that run at the same time.
MaxHandlers == 2

(***************************************************************************)
(* The Map of the image library: entries in insertion order                *)
(***************************************************************************)
MapHas(m, k) == \E i \in 1..Len(m) : m[i].key = k

MapGet(m, k) == m[CHOOSE i \in 1..Len(m) : m[i].key = k].value

\* A variant of MapSet that starts the map anew with the one entry.
mutant_MapSet(m, k, v) == <<[key |-> k, value |-> v]>>

\* Map.prototype.set: an existing key keeps its place, a new one goes last.
MapSet(m, k, v) ==
    IF MapHas(m, k)
    THEN [i \in 1..Len(m) |-> IF m[i].key = k THEN [key |-> k, value |-> v] ELSE m[i]]
    ELSE Append(m, [key |-> k, value |-> v])

\* Array.from(map.values())
MapValues(m) == [i \in 1..Len(m) |-> m[i].value]

MapKeys(m) == {m[i].key : i \in 1..Len(m)}

\* new Map(pairs): the pairs set one after the other.
RECURSIVE MapFromPairs(_, _)
MapFromPairs(m, pairs) ==
    IF pairs = <<>> THEN m
    ELSE MapFromPairs(MapSet(m, Head(pairs).key, Head(pairs).value), Tail(pairs))

(***************************************************************************)
(* Dates                                                                   *)
(***************************************************************************)
\* new Date().toISOString(): the millisecond count as text.
ToISOString(ms) == [iso |-> ms]

\* new Date(text): the millisecond count read back from the text.
DateOf(text) == text.iso

(***************************************************************************)
(* The record processImage builds (lines 171-187)                          *)
(***************************************************************************)
slash == <<"/">>

imagesUrl == <<"/", "i", "m", "a", "g", "e", "s", "/">>

thumbnailsUrl == <<"/", "t", "h", "u", "m", "b", "n", "a", "i", "l", "s", "/">>

\* (x * 100).toFixed(1) for x = num/den >= 0, in tenths of a percent.
ToFixed1(num, den) == [tenths |-> (2 * 1000 * num + den) \div (2 * den)]

ImageData(outputName, meta, optimizedBytes, thumbnailBytes, dims, at) ==
    [name          |-> outputName,
     filename      |-> outputName \o outputExt,
     extension     |-> Tail(outputExt),
     url           |-> imagesUrl \o outputName \o outputExt,
     thumbnailUrl  |-> thumbnailsUrl \o outputName \o outputExt,
     originalSize  |-> meta.size,
     optimizedSize |-> optimizedBytes,
     thumbnailSize |-> thumbnailBytes,
     dimensions    |-> dims,
     compression   |-> ToFixed1(meta.size - optimizedBytes, meta.size),
     processed     |-> ToISOString(at)]

(***************************************************************************)
(* The manifest file (this.libraryFile)                                    *)
(***************************************************************************)
\* JSON.stringify(libraryArray, null, 2): the text of an array of records.
Stringify(libraryArray) == [kind |-> "json", value |-> libraryArray]

AbsentFile == [kind |-> "absent"]

\* The file while fs.writeFile has opened it and not yet written the text.
TruncatedFile == [kind |-> "truncated"]

\* Text that JSON.parse rejects.
UnparsableFile == [kind |-> "unparsable"]

\* Records an earlier run wrote for the image names of the model.
EarlierRecord(file, c, at) ==
    ImageData(generateImageName(PathJoin(uploadsDir, file)), ContentOf[c],
              EncodedBytes[c].optimized, EncodedBytes[c].thumbnail,
              Dimensions(ContentOf[c].width, ContentOf[c].height, TRUE, TRUE), at)

\* What the manifest file may hold when the program starts, for the files of
\* a world: nothing, text that is no JSON, and arrays an earlier run wrote
\* (the last two edited by hand: a name twice, a record without its date).
InitManifests(w) ==
    { AbsentFile, UnparsableFile, Stringify(<<>>) }
    \cup { Stringify(<<EarlierRecord(f, "small", 1)>>) : f \in w }
    \cup { Stringify(<<EarlierRecord(f, "small", 0), EarlierRecord(g, "large", 1)>>) :
             f \in w, g \in w }
    \cup { Stringify(<<[EarlierRecord(f, "small", 1) EXCEPT !.processed = Undefined]>>) :
             f \in w \cap {aPng} }

\* JSON values that are no image records: a number, an object without a name.
JsonNumber(n) == [number |-> n]

NamelessObject == [object |-> TRUE]

\* A file whose text is valid JSON and no array: {}, 42, "x", null.
NonArrayFile(text) == [kind |-> "nonarray", text |-> text]

\* Manifest files no run of the program wrote: JSON that is no array, and
\* arrays with items that are no records.
OddManifests ==
    { NonArrayFile(t) : t \in {"{}", "42", "\"x\"", "null"} }
    \cup { Stringify(<<JsonNumber(1), JsonNumber(2)>>),
           Stringify(<<Null>>),
           Stringify(<<NamelessObject>>),
           Stringify(<<EarlierRecord(aPng, "small", 1), Null>>),
           Stringify(<<EarlierRecord(aPng, "small", 1), JsonNumber(2)>>) }

(***************************************************************************)
(* State                                                                   *)
(***************************************************************************)
VARIABLES
    world,          \* the files of the uploads directory this run is about
    uploads,        \* the uploads directory: file name -> file
    publicDir,      \* optimized derivatives: image name -> content encoded
    thumbnailsDir,  \* thumbnail derivatives: image name -> content encoded
    libraryFile,    \* the manifest file on disk
    imageLibrary,   \* this.imageLibrary
    phase,          \* where initialize() is
    imageFiles,     \* processExistingImages: the files the sweep iterates
    sweepIndex,     \* processExistingImages: the file the loop is at
    tasks,          \* the processImage calls in flight, one per slot
    events,         \* watcher events chokidar has yet to deliver
    now,            \* the latest time stamp taken, in milliseconds
    fsOps,          \* what the environment has done so far
    unhandled,      \* an error left an event handler uncaught
    skipped,        \* the sweep's skips (line 224), each with the record met
    probe,          \* the resize computation on its own (SpecDims)
    server,         \* the submissions server that runs: SQLite or in-memory
    submissions,    \* the submissions table, or the submissions array
    nextId,         \* the id the next submission gets
    publicImages,   \* public/images: the copies of approved files, by name
    approvedMemes,  \* the response of GET /api/approved-memes in flight
    memeUploads,    \* the files of the submissions server's uploads directory
    patchResponse,  \* the response of PATCH /api/admin/submissions/:id in flight
    everApproved,   \* history: the ids of the submissions approved at some time
    listing,        \* /images/images.json: the image names it lists, in order
    clock,          \* Date.now() in the browser, in units of a checkInterval
    cache,          \* this.cache: the keys of the Map, in insertion order
    lastCheck,      \* this.lastCheck
    callbacks,      \* this.callbacks: how many are registered
    isRunning,      \* this.isRunning
    intervalId,     \* this.intervalId (NoTimer for null)
    timers,         \* the interval timers created so far, by id
    pending,        \* the calls that await discoverImages, one per slot
    reported        \* history: per image, reports to the callbacks while listed

vars ==
    <<world, uploads, publicDir, thumbnailsDir, libraryFile, imageLibrary, phase,
      imageFiles, sweepIndex, tasks, events, now, fsOps, unhandled, skipped, probe,
      server, submissions, nextId, publicImages, approvedMemes, memeUploads,
      patchResponse, everApproved,
      listing, clock, cache, lastCheck, callbacks, isRunning, intervalId, timers,
      pending, reported>>

\* The state of the submissions server (server.js, add-new-images.js).
submissionVars ==
    <<server, submissions, nextId, publicImages, approvedMemes, memeUploads,
      patchResponse, everApproved>>

\* The state of the browser's ImageDiscoveryService (imageConfig.js).
discoveryVars ==
    <<listing, clock, cache, lastCheck, callbacks, isRunning, intervalId, timers,
      pending, reported>>

\* No response is in flight.
NoResponse == [status |-> 0]

\* The submissions server is not part of the run.
SubmissionsOff ==
    /\ server = "none"
    /\ submissions = <<>>
    /\ nextId = 1
    /\ publicImages = {}
    /\ approvedMemes = NoResponse
    /\ memeUploads = {}
    /\ patchResponse = NoResponse
    /\ everApproved = {}

\* this.maxCacheSize (line 166), scaled down from 50.
maxCacheSize == 2

\* The images that images.json may list: one more than the cache may hold.
MaxImages == 3

ImageNames == 1..MaxImages

\* this.checkInterval (line 162), in clock units (120000 ms in the source).
checkInterval == 1

\* Date.now() when the page loads: far more than a checkInterval after 0.
PageLoad == 1

\* The latest time of a run.
MaxClock == 3

\* The calls that may await discoverImages at one time.
MaxCalls == 2

Calls == 1..MaxCalls

\* The interval timers a run may create.
MaxTimers == 2

\* The callbacks that may be registered.
MaxCallbacks == 1

\* this.intervalId = null
NoTimer == 0

\* No call awaits in the slot.
NoCall == [kind |-> "none"]

\* Lines 158-167: the service as constructed.
Constructed ==
    /\ cache = <<>>
    /\ lastCheck = 0
    /\ callbacks = 0
    /\ isRunning = FALSE
    /\ intervalId = NoTimer
    /\ timers = <<>>
    /\ pending = [c \in Calls |-> NoCall]
    /\ reported = [n \in ImageNames |-> 0]

\* The discovery service is not part of the run.
DiscoveryOff ==
    /\ listing = <<>>
    /\ clock = PageLoad
    /\ Constructed

\* The image names of the model.
Names == {generateImageName(PathJoin(uploadsDir, f)) : f \in FileNames}

\* Slot 0 is the sweep's call of processImage; the others are handlers.
SweepTask == 0

Handlers == 1..MaxHandlers

TaskIds == {SweepTask} \cup Handlers

IdleTask ==
    [pc |-> "idle", origin |-> "none", file |-> <<>>, meta |-> Null,
     snapshot |-> Null, result |-> Null]

NewTask(origin, file) ==
    [IdleTask EXCEPT !.pc = "metadata", !.origin = origin, !.file = file]

InputPath(task) == PathJoin(uploadsDir, task.file)

OutputName(task) == generateImageName(InputPath(task))

InFlight(t) == tasks[t].pc # "idle"

NoProbe == [state |-> "off"]

(***************************************************************************)
(* initialize(): loadImageLibrary                                          *)
(***************************************************************************)
\* item.name in line 65: the name of a record, undefined for a value that has
\* none (a number, an object without the field).  The key undefined is unlike
\* every string.
UndefinedKey == <<"undefined">>

ItemName(item) == IF "name" \in DOMAIN item THEN item.name ELSE UndefinedKey

\* A variant of LoadedMap that files each item under its filename.
mutant_LoadedMap(libraryArray) ==
    MapFromPairs(<<>>, [i \in 1..Len(libraryArray) |->
                          [key |-> libraryArray[i].filename,
                           value |-> libraryArray[i]]])

\* Lines 63-65 on a file that parses to an array: one entry per item under
\* item.name, a later item replacing an earlier one of the same key; reading
\* .name of null throws, and the catch of lines 67-70 leaves the empty map.
LoadedMap(libraryArray) ==
    IF \E i \in 1..Len(libraryArray) : libraryArray[i] = Null
    THEN <<>>
    ELSE MapFromPairs(<<>>, [i \in 1..Len(libraryArray) |->
                              [key |-> ItemName(libraryArray[i]),
                               value |-> libraryArray[i]]])

loadImageLibrary ==
    /\ phase = "load"
    /\ imageLibrary' = IF libraryFile.kind = "json"
                       THEN LoadedMap(libraryFile.value)
                       ELSE <<>>
    /\ phase' = "readdir"
    /\ UNCHANGED <<world, uploads, publicDir, thumbnailsDir, libraryFile, imageFiles,
                   sweepIndex, tasks, events, now, fsOps, unhandled, skipped, probe,
                   submissionVars, discoveryVars>>

(***************************************************************************)
(* processImage(inputPath, outputName), one action per await                *)
(***************************************************************************)
Running == phase # "exited" /\ ~unhandled

Readable(file) == uploads[file].exists /\ ContentOf[uploads[file].content].decodable

\* Lines 110-113 and 119: getImageMetadata catches, processImage returns null.
MetadataFailure(task) == [task EXCEPT !.pc = "returned", !.result = Null]

\* A variant of ProcessImageFailure that lets the error through to the caller.
mutant_ProcessImageFailure(task) == [task EXCEPT !.pc = "thrown"]

\* Lines 201-204: the catch of processImage logs and returns null.
ProcessImageFailure(task) == [task EXCEPT !.pc = "returned", !.result = Null]

\* Line 99: sharp(filePath).metadata()
ReadMetadata(t) ==
    /\ Running
    /\ tasks[t].pc = "metadata"
    /\ LET task == tasks[t]
           c == ContentOf[uploads[task.file].content]
       IN  tasks' = [tasks EXCEPT ![t] =
               IF Readable(task.file)
               THEN [task EXCEPT !.pc = "stat",
                                 !.meta = [width |-> c.width, height |-> c.height]]
               ELSE MetadataFailure(task)]
    /\ UNCHANGED <<world, uploads, publicDir, thumbnailsDir, libraryFile, imageLibrary,
                   phase, imageFiles, sweepIndex, events, now, fsOps, unhandled, skipped, probe,
                   submissionVars, discoveryVars>>

\* Line 100: fs.stat(filePath)
StatSource(t) ==
    /\ Running
    /\ tasks[t].pc = "stat"
    /\ LET task == tasks[t]
       IN  tasks' = [tasks EXCEPT ![t] =
               IF uploads[task.file].exists
               THEN [task EXCEPT
                       !.pc = "optimize",
                       !.meta = [width  |-> task.meta.width,
                                 height |-> task.meta.height,
                                 size   |-> ContentOf[uploads[task.file].content].size]]
               ELSE MetadataFailure(task)]
    /\ UNCHANGED <<world, uploads, publicDir, thumbnailsDir, libraryFile, imageLibrary,
                   phase, imageFiles, sweepIndex, events, now, fsOps, unhandled, skipped, probe,
                   submissionVars, discoveryVars>>

\* A variant of WriteOptimized that enters the record in the library as soon
\* as the optimized derivative is written.
mutant_WriteOptimized(t) ==
    /\ Running
    /\ tasks[t].pc = "optimize"
    /\ LET task == tasks[t]
           c == uploads[task.file].content
       IN  IF Readable(task.file)
           THEN /\ publicDir' = [publicDir EXCEPT ![OutputName(task)] = c]
                /\ imageLibrary' =
                      MapSet(imageLibrary, OutputName(task),
                             ImageData(OutputName(task), task.meta,
                                       EncodedBytes[c].optimized, 0,
                                       Dimensions(task.meta.width, task.meta.height,
                                                  TRUE, TRUE),
                                       now))
                /\ tasks' = [tasks EXCEPT ![t].pc = "thumbnail"]
           ELSE /\ tasks' = [tasks EXCEPT ![t] = ProcessImageFailure(task)]
                /\ UNCHANGED <<publicDir, imageLibrary>>
    /\ UNCHANGED <<world, uploads, thumbnailsDir, libraryFile, phase,
                   imageFiles, sweepIndex, events, now, fsOps, unhandled, skipped, probe,
                   submissionVars, discoveryVars>>

\* Lines 150-156: the optimized derivative is encoded from the source as it
\* is now and written to publicDir.
WriteOptimized(t) ==
    /\ Running
    /\ tasks[t].pc = "optimize"
    /\ LET task == tasks[t] IN
       \E tieUp \in BOOLEAN :
          IF /\ Readable(task.file)
             /\ ResizeAccepts(OptimizedSize(task.meta.width, task.meta.height, tieUp))
          THEN /\ publicDir' = [publicDir EXCEPT ![OutputName(task)] =
                                                   uploads[task.file].content]
               /\ tasks' = [tasks EXCEPT ![t].pc = "thumbnail"]
          ELSE /\ tasks' = [tasks EXCEPT ![t] = ProcessImageFailure(task)]
               /\ UNCHANGED publicDir
    /\ UNCHANGED <<world, uploads, thumbnailsDir, libraryFile, imageLibrary, phase,
                   imageFiles, sweepIndex, events, now, fsOps, unhandled, skipped, probe,
                   submissionVars, discoveryVars>>

\* Lines 159-165: the thumbnail derivative.
WriteThumbnail(t) ==
    /\ Running
    /\ tasks[t].pc = "thumbnail"
    /\ LET task == tasks[t] IN
       \E tieUp \in BOOLEAN :
          IF /\ Readable(task.file)
             /\ ResizeAccepts(ThumbnailSize(task.meta.width, task.meta.height, tieUp))
          THEN /\ thumbnailsDir' = [thumbnailsDir EXCEPT ![OutputName(task)] =
                                                           uploads[task.file].content]
               /\ tasks' = [tasks EXCEPT ![t].pc = "upsert"]
          ELSE /\ tasks' = [tasks EXCEPT ![t] = ProcessImageFailure(task)]
               /\ UNCHANGED thumbnailsDir
    /\ UNCHANGED <<world, uploads, publicDir, libraryFile, imageLibrary, phase,
                   imageFiles, sweepIndex, events, now, fsOps, unhandled, skipped, probe,
                   submissionVars, discoveryVars>>

\* Lines 150-165 when the destination cannot be written (disk full, no
\* permission): toFile rejects and nothing is written.
WriteFails(t) ==
    /\ Running
    /\ tasks[t].pc \in {"optimize", "thumbnail"}
    /\ fsOps < MaxFsOps
    /\ fsOps' = fsOps + 1
    /\ tasks' = [tasks EXCEPT ![t] = ProcessImageFailure(tasks[t])]
    /\ UNCHANGED <<world, uploads, publicDir, thumbnailsDir, libraryFile, imageLibrary,
                   phase, imageFiles, sweepIndex, events, now, unhandled, skipped, probe,
                   submissionVars, discoveryVars>>

\* A variant of LibrarySet that keys the record by its file name.
mutant_LibrarySet(library, outputName, imageData) ==
    MapSet(library, imageData.filename, imageData)

\* Line 190: this.imageLibrary.set(outputName, imageData)
LibrarySet(library, outputName, imageData) == MapSet(library, outputName, imageData)

\* Lines 168-191 up to the await of fs.writeFile: the two fs.stat of the
\* derivatives, the record, this.imageLibrary.set, and saveImageLibrary's
\* Array.from and JSON.stringify.
UpsertRecord(t) ==
    /\ Running
    /\ tasks[t].pc = "upsert"
    /\ LET task == tasks[t]
           outputName == OutputName(task)
       IN  \E tieOpt, tieThumb \in BOOLEAN :
             LET imageData ==
                   ImageData(outputName, task.meta,
                             EncodedBytes[publicDir[outputName]].optimized,
                             EncodedBytes[thumbnailsDir[outputName]].thumbnail,
                             Dimensions(task.meta.width, task.meta.height,
                                        tieOpt, tieThumb),
                             now)
             IN  /\ imageLibrary' = LibrarySet(imageLibrary, outputName, imageData)
                 /\ tasks' = [tasks EXCEPT
                                ![t].pc = "saving",
                                ![t].result = imageData,
                                ![t].snapshot = Stringify(MapValues(imageLibrary'))]
    /\ UNCHANGED <<world, uploads, publicDir, thumbnailsDir, libraryFile, phase,
                   imageFiles, sweepIndex, events, now, fsOps, unhandled, skipped, probe,
                   submissionVars, discoveryVars>>

\* A variant of OpenLibraryFile in which saveImageLibrary does not catch: the
\* error of the refused open reaches the catch of processImage, which returns
\* null.
mutant_OpenLibraryFile(t) ==
    /\ Running
    /\ tasks[t].pc = "saving"
    /\ \/ /\ libraryFile' = TruncatedFile
          /\ tasks' = [tasks EXCEPT ![t].pc = "writing"]
          /\ UNCHANGED fsOps
       \/ /\ fsOps < MaxFsOps
          /\ fsOps' = fsOps + 1
          /\ tasks' = [tasks EXCEPT ![t].pc = "returned", ![t].snapshot = Null,
                                    ![t].result = Null]
          /\ UNCHANGED libraryFile
    /\ UNCHANGED <<world, uploads, publicDir, thumbnailsDir, imageLibrary, phase,
                   imageFiles, sweepIndex, events, now, unhandled, skipped, probe,
                   submissionVars, discoveryVars>>

\* Line 76, first half: fs.writeFile opens the library file for writing, which
\* empties it (flag 'w'); or the open is refused, and lines 78-80 log the
\* error and the file is as it was.
OpenLibraryFile(t) ==
    /\ Running
    /\ tasks[t].pc = "saving"
    /\ \/ /\ libraryFile' = TruncatedFile
          /\ tasks' = [tasks EXCEPT ![t].pc = "writing"]
          /\ UNCHANGED fsOps
       \/ /\ fsOps < MaxFsOps
          /\ fsOps' = fsOps + 1
          /\ tasks' = [tasks EXCEPT ![t].pc = "returned", ![t].snapshot = Null]
          /\ UNCHANGED libraryFile
    /\ UNCHANGED <<world, uploads, publicDir, thumbnailsDir, imageLibrary, phase,
                   imageFiles, sweepIndex, events, now, unhandled, skipped, probe,
                   submissionVars, discoveryVars>>

\* Line 76, second half: the text is written and fs.writeFile resolves; or
\* the write is refused, the file stays cut short and lines 78-80 log it.
WriteLibraryFile(t) ==
    /\ Running
    /\ tasks[t].pc = "writing"
    /\ \/ /\ libraryFile' = tasks[t].snapshot
          /\ UNCHANGED fsOps
       \/ /\ fsOps < MaxFsOps
          /\ fsOps' = fsOps + 1
          /\ UNCHANGED libraryFile
    /\ tasks' = [tasks EXCEPT ![t].pc = "returned", ![t].snapshot = Null]
    /\ UNCHANGED <<world, uploads, publicDir, thumbnailsDir, imageLibrary, phase,
                   imageFiles, sweepIndex, events, now, unhandled, skipped, probe,
                   submissionVars, discoveryVars>>

\* Lines 73-81.
saveImageLibrary(t) == OpenLibraryFile(t) \/ WriteLibraryFile(t)

processImage(t) ==
    \/ ReadMetadata(t)
    \/ StatSource(t)
    \/ WriteOptimized(t)
    \/ WriteThumbnail(t)
    \/ WriteFails(t)
    \/ UpsertRecord(t)
    \/ saveImageLibrary(t)

(***************************************************************************)
(* processExistingImages(): the startup sweep                              *)
(***************************************************************************)
\* The orders in which fs.readdir may list a set of files.
Listings(files) ==
    {l \in [1..Cardinality(files) -> files] : {l[i] : i \in DOMAIN l} = files}

\* Lines 209-210: readdir, then the filter on isImageFile.
ReadDir ==
    /\ Running
    /\ phase = "readdir"
    /\ \E l \in Listings({f \in FileNames :
                            /\ uploads[f].exists
                            /\ isImageFile(f)}) :
          imageFiles' = l
    /\ sweepIndex' = 1
    /\ phase' = "sweep"
    /\ UNCHANGED <<world, uploads, publicDir, thumbnailsDir, libraryFile, imageLibrary,
                   tasks, events, now, fsOps, unhandled, skipped, probe,
                   submissionVars, discoveryVars>>

\* Line 223: the record is as new as the file.
AlreadyProcessed(existingImage, mtime) ==
    /\ existingImage.processed # Undefined
    /\ DateOf(existingImage.processed) >= mtime

\* Lines 214-229, one turn of the loop up to the call of processImage:
\* the file is skipped, or processImage is called on it, or fs.stat throws and
\* the catch of lines 232-234 ends the sweep.
SweepVisit ==
    /\ Running
    /\ phase = "sweep"
    /\ sweepIndex <= Len(imageFiles)
    /\ ~InFlight(SweepTask)
    /\ LET file == imageFiles[sweepIndex]
           outputName == generateImageName(file)
       IN  IF MapHas(imageLibrary, outputName)
           THEN IF ~uploads[file].exists
                THEN /\ phase' = "swept"
                     /\ UNCHANGED <<sweepIndex, tasks, skipped>>
                ELSE IF AlreadyProcessed(MapGet(imageLibrary, outputName),
                                         uploads[file].mtime)
                THEN /\ sweepIndex' = sweepIndex + 1
                     /\ skipped' = skipped \cup
                           {[file |-> file, record |-> MapGet(imageLibrary, outputName)]}
                     /\ UNCHANGED <<phase, tasks>>
                ELSE /\ tasks' = [tasks EXCEPT ![SweepTask] = NewTask("sweep", file)]
                     /\ UNCHANGED <<phase, sweepIndex, skipped>>
           ELSE /\ tasks' = [tasks EXCEPT ![SweepTask] = NewTask("sweep", file)]
                /\ UNCHANGED <<phase, sweepIndex, skipped>>
    /\ UNCHANGED <<world, uploads, publicDir, thumbnailsDir, libraryFile, imageLibrary,
                   imageFiles, events, now, fsOps, unhandled, probe,
                   submissionVars, discoveryVars>>

\* Line 229: processImage has returned (an error it let through would be
\* caught by lines 232-234 and end the sweep); the loop goes on.
SweepResume ==
    /\ Running
    /\ phase = "sweep"
    /\ tasks[SweepTask].pc \in {"returned", "thrown"}
    /\ IF tasks[SweepTask].pc = "thrown"
       THEN phase' = "swept" /\ UNCHANGED sweepIndex
       ELSE sweepIndex' = sweepIndex + 1 /\ UNCHANGED phase
    /\ tasks' = [tasks EXCEPT ![SweepTask] = IdleTask]
    /\ UNCHANGED <<world, uploads, publicDir, thumbnailsDir, libraryFile, imageLibrary,
                   imageFiles, events, now, fsOps, unhandled, skipped, probe,
                   submissionVars, discoveryVars>>

\* The loop of lines 214-230 has run over every file.
SweepEnds ==
    /\ Running
    /\ phase = "sweep"
    /\ sweepIndex > Len(imageFiles)
    /\ phase' = "swept"
    /\ UNCHANGED <<world, uploads, publicDir, thumbnailsDir, libraryFile, imageLibrary,
                   imageFiles, sweepIndex, tasks, events, now, fsOps, unhandled, skipped, probe,
                   submissionVars, discoveryVars>>

processExistingImages == ReadDir \/ SweepVisit \/ SweepResume \/ SweepEnds

(***************************************************************************)
(* startWatching(): the chokidar watcher and its handlers                  *)
(***************************************************************************)
\* Lines 35 and 237-262: the watcher is created; the sweep's locals are gone.
startWatching ==
    /\ Running
    /\ phase = "swept"
    /\ phase' = "watching"
    /\ imageFiles' = <<>>
    /\ sweepIndex' = 0
    /\ skipped' = {}
    /\ UNCHANGED <<world, uploads, publicDir, thumbnailsDir, libraryFile, imageLibrary,
                   tasks, events, now, fsOps, unhandled, probe,
                   submissionVars, discoveryVars>>

\* ignored: /(^|[\/\\])\../ : a "." that starts the path or a segment of it
\* and is followed by a character.
Ignored(path) ==
    \E i \in 1..(Len(path) - 1) :
        /\ path[i] = "."
        /\ i = 1 \/ path[i - 1] \in {"/", "\\"}

\* The lowest slot with no handler in it.
FreeHandler(h) ==
    /\ h \in Handlers
    /\ ~InFlight(h)
    /\ \A g \in Handlers : g < h => InFlight(g)

\* Lines 245-258: chokidar calls the 'add' or the 'change' handler, which runs
\* to its first await inside processImage.
OnWatcherEvent(e) ==
    /\ Running
    /\ phase = "watching"
    /\ e \in events
    /\ events' = events \ {e}
    /\ IF isImageFile(PathJoin(uploadsDir, e.file))
       THEN \E h \in Handlers :
               /\ FreeHandler(h)
               /\ tasks' = [tasks EXCEPT ![h] = NewTask(e.type, e.file)]
       ELSE UNCHANGED tasks
    /\ UNCHANGED <<world, uploads, publicDir, thumbnailsDir, libraryFile, imageLibrary,
                   phase, imageFiles, sweepIndex, now, fsOps, unhandled, skipped, probe,
                   submissionVars, discoveryVars>>

\* The handler's await of processImage settles: the handler is done.  It has
\* no catch of its own: an error processImage let through would be an
\* unhandled rejection.
HandlerEnds(h) ==
    /\ Running
    /\ h \in Handlers
    /\ tasks[h].origin \in {"add", "change"}
    /\ tasks[h].pc \in {"returned", "thrown"}
    /\ unhandled' = (tasks[h].pc = "thrown")
    /\ tasks' = [tasks EXCEPT ![h] = IdleTask]
    /\ UNCHANGED <<world, uploads, publicDir, thumbnailsDir, libraryFile, imageLibrary,
                   phase, imageFiles, sweepIndex, events, now, fsOps, skipped, probe,
                   submissionVars, discoveryVars>>

(***************************************************************************)
(* UploadServer: POST /api/process/:filename                               *)
(***************************************************************************)
\* part_000 lines 95-108: fs.access, 404 when the file is missing, else
\* processImage on it.
PostProcess(f) ==
    /\ Running
    /\ phase = "watching"
    /\ fsOps < MaxFsOps
    /\ fsOps' = fsOps + 1
    /\ f \in world
    /\ IF uploads[f].exists
       THEN \E h \in Handlers :
               /\ FreeHandler(h)
               /\ tasks' = [tasks EXCEPT ![h] = NewTask("post", f)]
       ELSE UNCHANGED tasks
    /\ UNCHANGED <<world, uploads, publicDir, thumbnailsDir, libraryFile, imageLibrary,
                   phase, imageFiles, sweepIndex, events, now, unhandled, skipped, probe,
                   submissionVars, discoveryVars>>

\* part_000 lines 108-119: the response (200 with the record, 500 on null or
\* on an error caught by the route).
PostResponds(h) ==
    /\ Running
    /\ h \in Handlers
    /\ tasks[h].origin = "post"
    /\ tasks[h].pc \in {"returned", "thrown"}
    /\ tasks' = [tasks EXCEPT ![h] = IdleTask]
    /\ UNCHANGED <<world, uploads, publicDir, thumbnailsDir, libraryFile, imageLibrary,
                   phase, imageFiles, sweepIndex, events, now, fsOps, unhandled, skipped, probe,
                   submissionVars, discoveryVars>>

(***************************************************************************)
(* The environment: uploads, edits, deletions, time                        *)
(***************************************************************************)
\* The event chokidar queues for a change of the directory, once it watches.
Emit(type, f) ==
    IF phase = "watching" /\ ~Ignored(PathJoin(uploadsDir, f))
    THEN events \cup {[type |-> type, file |-> f]}
    ELSE events

\* A file is written at the millisecond of the latest time stamp, or later.
CreateFile(f, c) ==
    /\ fsOps < MaxFsOps
    /\ f \in world
    /\ ~uploads[f].exists
    /\ \E at \in {now, now + 1} :
          /\ uploads' = [uploads EXCEPT ![f] = UploadedFile(c, at)]
          /\ now' = at
    /\ events' = Emit("add", f)
    /\ fsOps' = fsOps + 1
    /\ UNCHANGED <<world, publicDir, thumbnailsDir, libraryFile, imageLibrary, phase,
                   imageFiles, sweepIndex, tasks, unhandled, skipped, probe,
                   submissionVars, discoveryVars>>

ModifyFile(f, c) ==
    /\ fsOps < MaxFsOps
    /\ f \in world
    /\ uploads[f].exists
    /\ \E at \in {now, now + 1} :
          /\ uploads' = [uploads EXCEPT ![f] = UploadedFile(c, at)]
          /\ now' = at
    /\ events' = Emit("change", f)
    /\ fsOps' = fsOps + 1
    /\ UNCHANGED <<world, publicDir, thumbnailsDir, libraryFile, imageLibrary, phase,
                   imageFiles, sweepIndex, tasks, unhandled, skipped, probe,
                   submissionVars, discoveryVars>>

DeleteFile(f) ==
    /\ fsOps < MaxFsOps
    /\ f \in world
    /\ uploads[f].exists
    /\ uploads' = [uploads EXCEPT ![f] = NoFile]
    /\ fsOps' = fsOps + 1
    /\ UNCHANGED <<world, publicDir, thumbnailsDir, libraryFile, imageLibrary, phase,
                   imageFiles, sweepIndex, tasks, events, now, unhandled, skipped, probe,
                   submissionVars, discoveryVars>>

(***************************************************************************)
(* The specification of the pipeline                                       *)
(***************************************************************************)
\* The derivative an earlier run left for image name n, going by the manifest.
EarlierDerivative(file, n) ==
    IF file.kind # "json" THEN NoContent
    ELSE LET hits == {i \in 1..Len(file.value) : file.value[i].name = n}
             last == CHOOSE i \in hits : \A j \in hits : j <= i
         IN  IF hits = {} THEN NoContent
             ELSE CHOOSE c \in DOMAIN EncodedBytes :
                     EncodedBytes[c].optimized = file.value[last].optimizedSize

Init ==
    /\ world \in Worlds
    /\ \E present \in {{}, world} :
          uploads = [f \in FileNames |->
                       IF f \in present THEN UploadedFile("small", 1) ELSE NoFile]
    /\ libraryFile \in InitManifests(world)
    /\ publicDir = [n \in Names |-> EarlierDerivative(libraryFile, n)]
    /\ thumbnailsDir = publicDir
    /\ imageLibrary = <<>>
    /\ phase = "load"
    /\ imageFiles = <<>>
    /\ sweepIndex = 0
    /\ tasks = [t \in TaskIds |-> IdleTask]
    /\ events = {}
    /\ now = 1
    /\ fsOps = 0
    /\ unhandled = FALSE
    /\ skipped = {}
    /\ probe = NoProbe
    /\ SubmissionsOff
    /\ DiscoveryOff

Next ==
    \/ loadImageLibrary
    \/ processExistingImages
    \/ startWatching
    \/ \E t \in TaskIds : processImage(t)
    \/ \E e \in events : OnWatcherEvent(e)
    \/ \E h \in Handlers : HandlerEnds(h)
    \/ \E f \in FileNames : PostProcess(f)
    \/ \E h \in Handlers : PostResponds(h)
    \/ \E f \in FileNames, c \in Contents : CreateFile(f, c)
    \/ \E f \in FileNames, c \in Contents : ModifyFile(f, c)
    \/ \E f \in FileNames : DeleteFile(f)

Spec == Init /\ [][Next]_vars

(***************************************************************************)
(* The resize computation of processImage on its own                       *)
(***************************************************************************)
\* Source widths and heights explored: every size up to DenseDim, a grid of
\* GridCount multiples of GridStep, and the sizes around the two boxes.
DenseDim == 40

GridStep == 97

GridCount == 22

SourceSizes ==
    (1..DenseDim)
    \cup {GridStep * k : k \in 1..GridCount}
    \cup {93, 100, 200, 299, 300, 301, 399, 400, 401, 767, 768, 769, 801,
          1000, 1023, 1024, 1025, 1200, 1600, 2000, 2048, 2049, 3000}

\* The pipeline is not running while the computation is probed.
PipelineOff ==
    /\ world = {}
    /\ uploads = [f \in FileNames |-> NoFile]
    /\ publicDir = [n \in Names |-> NoContent]
    /\ thumbnailsDir = [n \in Names |-> NoContent]
    /\ libraryFile = AbsentFile
    /\ imageLibrary = <<>>
    /\ phase = "exited"
    /\ imageFiles = <<>>
    /\ sweepIndex = 0
    /\ tasks = [t \in TaskIds |-> IdleTask]
    /\ events = {}
    /\ now = 1
    /\ fsOps = 0
    /\ unhandled = FALSE
    /\ skipped = {}

InitDims ==
    /\ PipelineOff
    /\ SubmissionsOff
    /\ DiscoveryOff
    /\ \E w \in SourceSizes, h \in SourceSizes :
          probe = [state |-> "metadata", width |-> w, height |-> h]

\* Lines 125-147 and 180-184 for the metadata of one source.
ComputeDimensions ==
    /\ probe.state = "metadata"
    /\ \E tieOpt, tieThumb \in TieOutcomes(probe.width, probe.height) :
          probe' = [state |-> "computed", width |-> probe.width, height |-> probe.height,
                    dimensions |-> Dimensions(probe.width, probe.height, tieOpt, tieThumb)]
    /\ UNCHANGED <<world, uploads, publicDir, thumbnailsDir, libraryFile, imageLibrary,
                   phase, imageFiles, sweepIndex, tasks, events, now, fsOps, unhandled,
                   skipped,
                   submissionVars, discoveryVars>>

NextDims == ComputeDimensions

SpecDims == InitDims /\ [][NextDims]_vars

Computed == probe.state = "computed"

Fits(size, box) == size.width <= box.width /\ size.height <= box.height

Abs(x) == IF x < 0 THEN -x ELSE x

\* One of the two output dimensions is the nearest integer to the value
\* that is exactly proportional to the other.
NearestProportional(size, w, h) ==
    \/ 2 * Abs(size.height * w - size.width * h) <= w
    \/ 2 * Abs(size.width * h - size.height * w) <= h

\* C7: for every source size and both bounding boxes, the output fits the box
\* and keeps the aspect ratio up to rounding: the derived dimension is the
\* nearest integer to the proportional value and the ratio ow/oh is defined.
C7_FitsBoxKeepsAspect ==
    Computed =>
        LET d == probe.dimensions IN
        /\ Fits(d.optimized, maxDimensions)
        /\ Fits(d.thumbnail, thumbnailDimensions)
        /\ NearestProportional(d.optimized, probe.width, probe.height)
        /\ NearestProportional(d.thumbnail, probe.width, probe.height)
        /\ d.optimized.width >= 1 /\ d.optimized.height >= 1
        /\ d.thumbnail.width >= 1 /\ d.thumbnail.height >= 1

\* C8: a source no larger than maxDimensions in both dimensions is recorded
\* with optimized dimensions equal to its own.
C8_OptimizedNotUpscaled ==
    Computed /\ Fits(probe, maxDimensions) =>
        probe.dimensions.optimized = [width |-> probe.width, height |-> probe.height]

C8_Witness ==
    /\ Computed
    /\ probe.width = 200 /\ probe.height = 100
    /\ probe.dimensions.optimized = [width |-> 200, height |-> 100]

\* C9: a source no larger than thumbnailDimensions in both dimensions is
\* recorded with thumbnail dimensions equal to its own.
C9_ThumbnailNotUpscaled ==
    Computed /\ Fits(probe, thumbnailDimensions) =>
        probe.dimensions.thumbnail = [width |-> probe.width, height |-> probe.height]

(***************************************************************************)
(* Properties of the pipeline                                              *)
(***************************************************************************)
\* A processImage call that has started and has not returned.
Processing(t) == tasks[t].pc \notin {"idle", "returned", "thrown"}

Failed(t) == tasks[t].pc \in {"returned", "thrown"} /\ tasks[t].result = Null

Succeeded(t) == tasks[t].pc = "returned" /\ tasks[t].result # Null

FromWatcher(t) == tasks[t].origin \in {"add", "change"}

\* C1: at no time are two processImage runs for the same source path in
\* flight together.
C1_NoConcurrentRunsOfOneFile ==
    \A s, t \in TaskIds :
        s # t /\ Processing(s) /\ Processing(t) => tasks[s].file # tasks[t].file

\* The places of processImage before the record is entered in the library.
BeforeUpsert == {"metadata", "stat", "optimize", "thumbnail", "upsert"}

\* C2: a failed attempt adds no manifest entry and updates none: an attempt
\* fails only from a place before its upsert, and no step that leaves an
\* attempt before its upsert, or failed, changes the in-memory manifest.
C2_FailedAttemptLeavesManifest ==
    [][\A t \in TaskIds :
         /\ (tasks'[t] # tasks[t] /\ Failed(t)')
               => tasks[t].pc \in BeforeUpsert
         /\ (tasks'[t] # tasks[t] /\ (Failed(t)' \/ tasks'[t].pc \in BeforeUpsert))
               => imageLibrary' = imageLibrary]_vars

\* An attempt on a file that has a record failed, and the record is there.
C2_Witness ==
    \E t \in TaskIds :
        /\ Failed(t)
        /\ MapHas(imageLibrary, OutputName(tasks[t]))

\* C3: the batch sweep takes every listed file through its loop, whatever
\* happens to one of them, and no exception ends it early.
C3_SweepHandlesEveryFile ==
    phase = "swept" => sweepIndex = Len(imageFiles) + 1

\* C4: no error raised while processing a file leaves a watcher event
\* handler uncaught or stops the watcher.
C4_NoErrorLeavesHandler == ~unhandled

\* A handler failed on one file and the handler started after it processed
\* another file to the end.
C4_Witness ==
    /\ phase = "watching"
    /\ ~unhandled
    /\ FromWatcher(1) /\ Failed(1)
    /\ FromWatcher(2) /\ Succeeded(2)
    /\ tasks[1].file # tasks[2].file
    /\ MapHas(imageLibrary, OutputName(tasks[2]))

\* C5: the manifest holds at most one record per name, each under the key
\* equal to its name field, and an upsert of a name that is there replaces
\* the record in place: the keys and their order stay.
C5_OneRecordPerName ==
    /\ [](/\ \A i, j \in 1..Len(imageLibrary) :
                imageLibrary[i].key = imageLibrary[j].key => i = j
          /\ \A i \in 1..Len(imageLibrary) :
                imageLibrary[i].key = imageLibrary[i].value.name)
    /\ [][\A t \in TaskIds :
            (/\ tasks[t].pc = "upsert"
             /\ tasks'[t].pc = "saving"
             /\ MapHas(imageLibrary, OutputName(tasks[t])))
            => /\ Len(imageLibrary') = Len(imageLibrary)
               /\ \A i \in 1..Len(imageLibrary) :
                     imageLibrary'[i].key = imageLibrary[i].key]_vars

\* The first of two records was replaced in place: the manifest file still
\* holds the old first record and the same second record.
C5_Witness ==
    \E t \in TaskIds :
        /\ tasks[t].pc = "saving"
        /\ Len(imageLibrary) = 2
        /\ imageLibrary[1].value = tasks[t].result
        /\ libraryFile.kind = "json"
        /\ Len(libraryFile.value) = 2
        /\ libraryFile.value[1].name = tasks[t].result.name
        /\ libraryFile.value[1] # tasks[t].result
        /\ libraryFile.value[2] = imageLibrary[2].value

\* C6: two distinct source files that were each processed successfully have
\* separate records: they are stored under different names.
C6_SeparateRecordPerSource ==
    \A s, t \in TaskIds :
        (Succeeded(s) /\ Succeeded(t) /\ tasks[s].file # tasks[t].file)
            => OutputName(tasks[s]) # OutputName(tasks[t])

\* The sweep is at a file whose record is not older than the file.
SweepAtUnchanged ==
    /\ phase = "sweep"
    /\ sweepIndex <= Len(imageFiles)
    /\ ~InFlight(SweepTask)
    /\ LET file == imageFiles[sweepIndex]
           outputName == generateImageName(file)
       IN  /\ uploads[file].exists
           /\ MapHas(imageLibrary, outputName)
           /\ MapGet(imageLibrary, outputName).processed # Undefined
           /\ DateOf(MapGet(imageLibrary, outputName).processed) >= uploads[file].mtime

\* C10: when the sweep meets a file whose record is not older than the file,
\* it passes it by: processImage is not called on it and nothing is written,
\* and up to the end of the sweep the manifest holds for it the record it
\* held when it was met.
C10_SweepSkipsUnchanged ==
    /\ [][(SweepAtUnchanged /\ <<phase, sweepIndex, tasks>>' # <<phase, sweepIndex, tasks>>)
            => /\ sweepIndex' = sweepIndex + 1
               /\ UNCHANGED <<phase, tasks, imageLibrary, libraryFile, publicDir,
                              thumbnailsDir>>]_vars
    /\ [](phase \in {"sweep", "swept"} =>
            \A s \in skipped :
                /\ MapHas(imageLibrary, generateImageName(s.file))
                /\ MapGet(imageLibrary, generateImageName(s.file)) = s.record)

\* C11: a reader of the manifest file never finds it half-written: at every
\* instant the file on disk is whole, never the file that a write in progress,
\* or a write that failed or was cut off, has emptied.
C11_ManifestFileNeverHalfWritten == libraryFile # TruncatedFile

(***************************************************************************)
(* The stop signal                                                         *)
(***************************************************************************)
\* Lines 36-39 of the main script: on SIGINT the handler calls
\* process.exit(0) at once (before it is registered, and in the upload
\* server, which registers none, the signal ends the process by default).
\* Nothing in flight is awaited: every call stays where it was.
Sigint ==
    /\ Running
    /\ phase' = "exited"
    /\ events' = {}
    /\ UNCHANGED <<world, uploads, publicDir, thumbnailsDir, libraryFile, imageLibrary,
                   imageFiles, sweepIndex, tasks, now, fsOps, unhandled, skipped, probe,
                   submissionVars, discoveryVars>>

NextOrSigint == Next \/ Sigint

SpecShutdown == Init /\ [][NextOrSigint]_vars

\* C12: when the process has exited on the stop signal, no file processing
\* was cut off inside its write of the manifest: each one had run to its end
\* or was left at a place where the manifest file is whole.
C12_CleanShutdown ==
    phase = "exited" => \A t \in TaskIds : tasks[t].pc # "writing"

(***************************************************************************)
(* loadImageLibrary over every kind of manifest file                       *)
(***************************************************************************)
InitLoad ==
    /\ world \in Worlds
    /\ \E present \in {{}, world} :
          uploads = [f \in FileNames |->
                       IF f \in present THEN UploadedFile("small", 1) ELSE NoFile]
    /\ libraryFile \in InitManifests(world) \cup OddManifests
    /\ publicDir = [n \in Names |-> NoContent]
    /\ thumbnailsDir = publicDir
    /\ imageLibrary = <<>>
    /\ phase = "load"
    /\ imageFiles = <<>>
    /\ sweepIndex = 0
    /\ tasks = [t \in TaskIds |-> IdleTask]
    /\ events = {}
    /\ now = 1
    /\ fsOps = 0
    /\ unhandled = FALSE
    /\ skipped = {}
    /\ probe = NoProbe
    /\ SubmissionsOff
    /\ DiscoveryOff

\* Lines 29-32 of initialize(), up to the listing of the sweep.
NextLoad == loadImageLibrary \/ ReadDir

SpecLoad == InitLoad /\ [][NextLoad]_vars

\* The file holds an array whose items all are records with a name.
ArrayOfRecords(file) ==
    /\ file.kind = "json"
    /\ \A i \in 1..Len(file.value) : "name" \in DOMAIN file.value[i]

\* C13: loadImageLibrary never fails: on a file that is absent, no JSON, or
\* JSON that is no array of records, the in-memory manifest is the empty map
\* and initialization goes on to the sweep.
C13_LoadNeverFails ==
    /\ ~unhandled
    /\ (phase # "load" /\ ~ArrayOfRecords(libraryFile)) => imageLibrary = <<>>

\* C14: the manifest survives a round trip: for every non-empty map of records
\* the pipeline holds, the array saveImageLibrary writes for it is read back
\* by loadImageLibrary as an equal map: same keys, same records, same order.
C14_ManifestRoundTrip ==
    imageLibrary # <<>> =>
        LoadedMap(Stringify(MapValues(imageLibrary)).value) = imageLibrary

\* A processImage call has written a manifest of two records, the file holds
\* what the map holds, and reading the file back gives the map.
C14_Witness ==
    /\ Len(imageLibrary) = 2
    /\ \E t \in TaskIds : Succeeded(t)
    /\ libraryFile = Stringify(MapValues(imageLibrary))
    /\ LoadedMap(libraryFile.value) = imageLibrary
    /\ MapKeys(imageLibrary) = {imageLibrary[1].value.name, imageLibrary[2].value.name}

(***************************************************************************)
(* getLibraryStats() and formatFileSize(bytes)                             *)
(***************************************************************************)
\* Line 267.
FileSizeUnits == <<"Bytes", "KB", "MB", "GB">>

\* Line 268: Math.floor(Math.log(bytes) / Math.log(1024)) for bytes >= 1.
RECURSIVE UnitIndex(_)
UnitIndex(bytes) == IF bytes < 1024 THEN 0 ELSE 1 + UnitIndex(bytes \div 1024)

\* A variant of formatFileSize that counts in units of 1000.
mutant_formatFileSize(bytes) ==
    IF bytes = 0 THEN [hundredths |-> 0, unit |-> "Bytes"]
    ELSE IF bytes < 0 THEN [nan |-> TRUE, unit |-> "undefined"]
    ELSE LET i == IF bytes < 1000 THEN 0 ELSE IF bytes < 1000000 THEN 1 ELSE 2
             unitBytes == 1000 ^ i
         IN  [hundredths |-> (200 * bytes + unitBytes) \div (2 * unitBytes),
              unit |-> FileSizeUnits[i + 1]]

\* Lines 264-270: the text "<number> <unit>", the number in hundredths of the
\* unit.  bytes / 1024^i is exact in double precision, so toFixed(2) rounds it
\* to the nearest hundredth, a tie upwards, and parseFloat only drops zeros.
\* Of a negative number the logarithm is NaN and the text "NaN undefined".
formatFileSize(bytes) ==
    IF bytes = 0 THEN [hundredths |-> 0, unit |-> "Bytes"]
    ELSE IF bytes < 0 THEN [nan |-> TRUE, unit |-> "undefined"]
    ELSE LET i == UnitIndex(bytes)
             unitBytes == 1024 ^ i
         IN  [hundredths |-> (200 * bytes + unitBytes) \div (2 * unitBytes),
              unit |-> IF i < Len(FileSizeUnits) THEN FileSizeUnits[i + 1]
                       ELSE "undefined"]

\* img.originalSize || 0, and the like: 0 for a value without the field.
SizeOrZero(img, field) == IF field \in DOMAIN img THEN img[field] ELSE 0

\* images.reduce((sum, img) => sum + (img[field] || 0), 0)
RECURSIVE ReduceSizes(_, _)
ReduceSizes(images, field) ==
    IF images = <<>> THEN 0
    ELSE SizeOrZero(Head(images), field) + ReduceSizes(Tail(images), field)

\* A variant of AvgCompression without the test of totalOriginal: 0/0 is NaN.
mutant_AvgCompression(totalSaved, totalOriginal, tieUp) ==
    IF totalOriginal # 0
    THEN [tenths |-> MathRound(1000 * totalSaved, totalOriginal, tieUp), suffix |-> "%"]
    ELSE [nan |-> TRUE, suffix |-> "%"]

\* Lines 278 and 286: (totalSaved / totalOriginal * 100).toFixed(1), or the
\* number 0, followed by "%".  The quotient is a double: toFixed gives the
\* nearest tenth, and at a tie either neighbour.
AvgCompression(totalSaved, totalOriginal, tieUp) ==
    IF totalOriginal > 0
    THEN [tenths |-> MathRound(1000 * totalSaved, totalOriginal, tieUp), suffix |-> "%"]
    ELSE [number |-> 0, suffix |-> "%"]

\* Lines 272-288.
getLibraryStats(library, tieUp) ==
    LET images == MapValues(library)
        totalOriginal == ReduceSizes(images, "originalSize")
        totalOptimized == ReduceSizes(images, "optimizedSize")
        totalThumbnails == ReduceSizes(images, "thumbnailSize")
        totalSaved == totalOriginal - totalOptimized
    IN  [totalImages        |-> Len(images),
         totalOriginalSize  |-> formatFileSize(totalOriginal),
         totalOptimizedSize |-> formatFileSize(totalOptimized),
         totalThumbnailSize |-> formatFileSize(totalThumbnails),
         totalSaved         |-> formatFileSize(totalSaved),
         avgCompression     |-> AvgCompression(totalSaved, totalOriginal, tieUp)]

\* The byte counts of the records the statistics are taken of.
OriginalSizes == {1000, 2000, 524288}

OptimizedSizes == {400, 1000, 1500}

ThumbnailSizes == {100, 150}

StatsRecords(name) ==
    { ImageData(name, [size |-> o], ob, tb, Dimensions(200, 100, TRUE, TRUE), 1) :
        o \in OriginalSizes, ob \in OptimizedSizes, tb \in ThumbnailSizes }

\* The libraries the statistics are taken of: none, one or two records, and
\* the library read from a manifest file of two numbers.
StatsLibraries ==
    { <<>>, LoadedMap(<<JsonNumber(1), JsonNumber(2)>>) }
    \cup { LoadedMap(<<r>>) : r \in StatsRecords(generateImageName(aPng)) }
    \cup { LoadedMap(<<r, q>>) : r \in StatsRecords(generateImageName(aPng)),
                                 q \in StatsRecords(generateImageName(b1Gif)) }

\* The processor is watching, with nothing in flight.
InitStats ==
    /\ world = {aPng, b1Gif}
    /\ uploads = [f \in FileNames |-> NoFile]
    /\ publicDir = [n \in Names |-> NoContent]
    /\ thumbnailsDir = [n \in Names |-> NoContent]
    /\ imageLibrary \in StatsLibraries
    /\ libraryFile = Stringify(MapValues(imageLibrary))
    /\ phase = "watching"
    /\ imageFiles = <<>>
    /\ sweepIndex = 0
    /\ tasks = [t \in TaskIds |-> IdleTask]
    /\ events = {}
    /\ now = 1
    /\ fsOps = 0
    /\ unhandled = FALSE
    /\ skipped = {}
    /\ probe = NoProbe
    /\ SubmissionsOff
    /\ DiscoveryOff

\* Line 24 of the main script, lines 83-86 of the upload server.
GetLibraryStats ==
    /\ probe = NoProbe
    /\ SubmissionsOff
    /\ DiscoveryOff
    /\ phase = "watching"
    /\ \E tieUp \in BOOLEAN :
          probe' = [state |-> "stats", stats |-> getLibraryStats(imageLibrary, tieUp)]
    /\ UNCHANGED <<world, uploads, publicDir, thumbnailsDir, libraryFile, imageLibrary,
                   phase, imageFiles, sweepIndex, tasks, events, now, fsOps, unhandled,
                   skipped,
                   submissionVars, discoveryVars>>

NextStats == GetLibraryStats

SpecStats == InitStats /\ [][NextStats]_vars

StatsTaken == probe.state = "stats"

\* The sum of a byte count over the records of the library.
RECURSIVE TotalOf(_, _)
TotalOf(field, n) ==
    IF n = 0 THEN 0
    ELSE TotalOf(field, n - 1) + SizeOrZero(imageLibrary[n].value, field)

\* The text names the count of bytes: in the largest unit of 1024 that is not
\* above it, to the nearest hundredth.
NamesByteCount(text, bytes) ==
    IF bytes = 0 THEN text = [hundredths |-> 0, unit |-> "Bytes"]
    ELSE \E i \in 0..3 :
            /\ text.unit = FileSizeUnits[i + 1]
            /\ 1024 ^ i <= bytes
            /\ bytes < 1024 ^ (i + 1)
            /\ 2 * Abs(text.hundredths * (1024 ^ i) - 100 * bytes) <= 1024 ^ i

\* The library of the two records of 1000/400 and 2000/1000 bytes.
TwoRecordExample ==
    /\ Len(imageLibrary) = 2
    /\ imageLibrary[1].value.originalSize = 1000
    /\ imageLibrary[1].value.optimizedSize = 400
    /\ imageLibrary[2].value.originalSize = 2000
    /\ imageLibrary[2].value.optimizedSize = 1000

\* C15 as stated: the totals reported are the sums of the byte counts, as
\* numbers (3000 and 1400 for the two records), and totalImages the count.
C15_StatsReportSums ==
    StatsTaken =>
        /\ probe.stats.totalImages = Len(imageLibrary)
        /\ probe.stats.totalOriginalSize =
              JsonNumber(TotalOf("originalSize", Len(imageLibrary)))
        /\ probe.stats.totalOptimizedSize =
              JsonNumber(TotalOf("optimizedSize", Len(imageLibrary)))
        /\ probe.stats.totalThumbnailSize =
              JsonNumber(TotalOf("thumbnailSize", Len(imageLibrary)))

\* C15 amended: totalImages is the count of records, and the three totals are
\* the sums of the byte counts given as text by formatFileSize, "2.93 KB" and
\* "1.37 KB" for the two records.
C15_StatsReportFormattedSums ==
    StatsTaken =>
        /\ probe.stats.totalImages = Len(imageLibrary)
        /\ NamesByteCount(probe.stats.totalOriginalSize,
                          TotalOf("originalSize", Len(imageLibrary)))
        /\ NamesByteCount(probe.stats.totalOptimizedSize,
                          TotalOf("optimizedSize", Len(imageLibrary)))
        /\ NamesByteCount(probe.stats.totalThumbnailSize,
                          TotalOf("thumbnailSize", Len(imageLibrary)))
        /\ TwoRecordExample =>
              /\ probe.stats.totalOriginalSize = [hundredths |-> 293, unit |-> "KB"]
              /\ probe.stats.totalOptimizedSize = [hundredths |-> 137, unit |-> "KB"]

C15_Witness ==
    /\ StatsTaken
    /\ TwoRecordExample
    /\ probe.stats.totalImages = 2
    /\ probe.stats.totalOriginalSize = [hundredths |-> 293, unit |-> "KB"]
    /\ probe.stats.totalOptimizedSize = [hundredths |-> 137, unit |-> "KB"]

\* C16: the overall compression is (totalOriginal - totalOptimized) /
\* totalOriginal as a percentage to one decimal place, 53.3 for totals of 3000
\* and 1400, and it is 0 when totalOriginal is 0, the empty manifest included.
C16_AvgCompression ==
    StatsTaken =>
        LET totalOriginal == TotalOf("originalSize", Len(imageLibrary))
            totalOptimized == TotalOf("optimizedSize", Len(imageLibrary))
            avg == probe.stats.avgCompression
        IN  /\ totalOriginal = 0 => avg = [number |-> 0, suffix |-> "%"]
            /\ totalOriginal > 0 =>
                  /\ DOMAIN avg = {"tenths", "suffix"}
                  /\ 2 * Abs(avg.tenths * totalOriginal
                             - 1000 * (totalOriginal - totalOptimized)) <= totalOriginal
            /\ TwoRecordExample => avg.tenths = 533

\* The statistics of the two records were taken: 53.3%.
C16_Witness ==
    /\ StatsTaken
    /\ TwoRecordExample
    /\ probe.stats.avgCompression = [tenths |-> 533, suffix |-> "%"]

\* C17: the pipeline never removes a record: once the manifest is loaded,
\* every name the in-memory manifest holds it holds after every step, whether
\* of the sweep, of a handler, of a failing or succeeding processImage or of a
\* deletion of a source file.
C17_RecordsNeverRemoved ==
    [][phase # "load" =>
         \A i \in 1..Len(imageLibrary) : MapHas(imageLibrary', imageLibrary[i].key)]_vars

\* The source of a record was deleted while the watcher runs, a later event
\* was handled to its end, and the record is still there.
C17_Witness ==
    /\ phase = "watching"
    /\ \E f \in world :
          /\ ~uploads[f].exists
          /\ MapHas(imageLibrary, generateImageName(f))
          /\ \E h \in Handlers :
                /\ Succeeded(h)
                /\ tasks[h].file # f
                /\ OutputName(tasks[h]) # generateImageName(f)

\* The step is a write of the manifest by call t that was refused.
WriteRefused(t) ==
    /\ tasks[t].pc \in {"saving", "writing"}
    /\ tasks'[t].pc = "returned"
    /\ fsOps' = fsOps + 1

\* The names of the records in a manifest file an array was written to.
NamesWritten(file) == {file.value[i].name : i \in 1..Len(file.value)}

\* C18: a write of the manifest that is refused is not propagated: the call
\* of processImage returns its record, nothing is left uncaught and the
\* pipeline stays in its phase, and the in-memory manifest keeps the record;
\* and every persist begun afterwards serializes all the names the in-memory
\* manifest holds, which a write that completes puts on disk.
C18_UnwritableManifest ==
    [][\A t \in TaskIds :
         /\ WriteRefused(t) =>
               /\ tasks'[t].result # Null
               /\ ~unhandled'
               /\ phase' = phase
               /\ imageLibrary' = imageLibrary
               /\ MapHas(imageLibrary', OutputName(tasks[t]))
         /\ (tasks[t].pc = "upsert" /\ tasks'[t].pc = "saving") =>
               /\ MapKeys(imageLibrary) \subseteq MapKeys(imageLibrary')
               /\ NamesWritten(tasks'[t].snapshot) = MapKeys(imageLibrary')
         /\ (tasks[t].pc = "writing" /\ tasks'[t].pc = "returned" /\ fsOps' = fsOps) =>
               /\ libraryFile' = tasks[t].snapshot
               /\ OutputName(tasks[t]) \in NamesWritten(libraryFile')]_vars

\* The manifest file has never existed: the write for the sweep's first file
\* was refused at the open, its record is in memory all the same, and the
\* persist begun for the second file has serialized the records of both.
C18_Witness ==
    /\ phase = "sweep"
    /\ sweepIndex = 2
    /\ tasks[SweepTask].pc = "saving"
    /\ libraryFile = AbsentFile
    /\ fsOps = 1
    /\ Len(imageLibrary) = 2
    /\ imageLibrary[2].key = OutputName(tasks[SweepTask])
    /\ NamesWritten(tasks[SweepTask].snapshot) =
          {imageLibrary[1].key, imageLibrary[2].key}

\* A qualifying file: not a dotfile, and of a supported extension.
Qualifying(file) ==
    /\ Len(file) > 0
    /\ file[1] # "."
    /\ isImageFile(file)

\* C19: every file that is in processing for the startup sweep or for a
\* watcher create/modify event is a qualifying file.
C19_OnlyQualifyingProcessed ==
    \A t \in TaskIds :
        tasks[t].origin \in {"sweep", "add", "change"} => Qualifying(tasks[t].file)

\* The part of C19 about extensions: every file in processing for the sweep
\* or for a watcher event has a supported extension.
C19_OnlySupportedProcessed ==
    \A t \in TaskIds :
        tasks[t].origin \in {"sweep", "add", "change"} => isImageFile(tasks[t].file)

\* The part of C19 about the watcher: every file in processing for a watcher
\* event is a qualifying file.
C19_WatcherSkipsDotfiles ==
    \A t \in TaskIds :
        tasks[t].origin \in {"add", "change"} => Qualifying(tasks[t].file)

(***************************************************************************)
(* The submissions server: server.js (SQLite) and the second program of    *)
(* add-new-images.js (in-memory array)                                     *)
(***************************************************************************)
\* The submissions a run goes up to.
MaxSubmissions == 2

myCatPng == <<"m", "y", " ", "c", ".", "p", "n", "g">>

\* file.originalname of the uploads of the model.
OriginalNames == {aPng, myCatPng}

\* req.file of the requests of the model.
Files == {[originalname |-> n] : n \in OriginalNames} \cup {Undefined}

\* req.body.text of the requests of the model: texts of letters and blanks.
Texts ==
    { <<>>, <<" ">>, <<"o", "k">>, <<"l", "o", "l">>,
      <<" ", "l", "o", "l", " ", " ", " ", " ", " ">> }

\* req.body.timestamp of the requests of the model.
Timestamps == {Undefined, [text |-> "t1"]}

\* req.body.approved of the requests of the model.
ApprovedValues ==
    {JsonNumber(0), JsonNumber(1), JsonNumber(-1), [string |-> "1"], Undefined}

RECURSIVE TrimStart(_)
TrimStart(text) ==
    IF text # <<>> /\ Head(text) = " " THEN TrimStart(Tail(text)) ELSE text

RECURSIVE TrimEnd(_)
TrimEnd(text) ==
    IF text # <<>> /\ text[Len(text)] = " "
    THEN TrimEnd(SubSeq(text, 1, Len(text) - 1))
    ELSE text

\* String.prototype.trim, for blanks.
Trim(text) == TrimEnd(TrimStart(text))

\* .replace(/[ \t]+/g, ' '): every run of blanks becomes one blank.
RECURSIVE CollapseBlanks(_)
CollapseBlanks(text) ==
    IF Len(text) < 2 THEN text
    ELSE IF text[1] = " " /\ text[2] = " " THEN CollapseBlanks(Tail(text))
    ELSE <<Head(text)>> \o CollapseBlanks(Tail(text))

\* add-new-images.js lines 186-238, for a text of letters and blanks of at
\* most 500 characters: no control character, tag, pattern or HTML entity is
\* there to remove or escape, which leaves the collapse of blanks and the trim.
sanitizeUserText(text) == Trim(CollapseBlanks(text))

\* add-new-images.js lines 241-278: validation.isValid.
validateSubmissionText(text) ==
    LET sanitized == sanitizeUserText(text)
    IN  /\ Len(sanitized) >= 3
        /\ Len(sanitized) <= 500
        /\ ~(Len(text) > 0 /\ 2 * Len(sanitized) < Len(text))

\* .replace(/[^a-zA-Z0-9.-]/g, '_') of add-new-images.js line 360 (the
\* names of the model are under its 100 characters).
SanitizeName(name) ==
    [i \in 1..Len(name) |->
        IF name[i] \in LowerLetters \cup DOMAIN LowerOf \cup Digits \cup {".", "-"}
        THEN name[i] ELSE "_"]

\* created_at of a new submission: the clock's reading, which is that of the
\* submission before or later.
CreatedAts ==
    IF submissions = <<>> THEN {1}
    ELSE LET last == submissions[Len(submissions)].created_at
         IN  {last, last + 1}

\* What none of the submissions server's steps changes.
pipelineVars ==
    <<world, uploads, publicDir, thumbnailsDir, libraryFile, imageLibrary, phase,
      imageFiles, sweepIndex, tasks, events, now, unhandled, skipped, probe>>

\* The uploads a run goes up to that end as no submission.
MaxOrphans == 1

\* multer's filename (server.js lines 32-37, add-new-images.js lines 308-313):
\* 'meme-' + Date.now() + '-' + a random number + the extension. The suffix of
\* the model is the count of the files stored so far, which no file has yet.
UniqueName(file) ==
    [meme |-> Cardinality(memeUploads) + 1, ext |-> Extname(file.originalname)]

\* The files of uploads/ that belong to no submission.
Orphans ==
    {f \in memeUploads : \A i \in 1..Len(submissions) : submissions[i].filename # f}

\* server.js lines 86-115: POST /api/submissions. file is req.file, Undefined
\* without a file (status 400, nothing stored). multer has stored the file
\* when the handler runs, and no path of the handler removes it.
PostSubmissionSqlite(file, text, timestamp) ==
    /\ server = "sqlite"
    /\ file # Undefined
    /\ memeUploads' = memeUploads \cup {UniqueName(file)}
    /\ \/ \* lines 97-113: the row is inserted
          /\ Len(submissions) < MaxSubmissions
          /\ Trim(text) # <<>>
          /\ timestamp # Undefined
          /\ \E at \in CreatedAts :
                submissions' = Append(submissions,
                    [id            |-> nextId,
                     filename      |-> UniqueName(file),
                     original_name |-> file.originalname,
                     user_text     |-> Trim(text),
                     timestamp     |-> timestamp,
                     approved      |-> 0,
                     created_at    |-> at])
          /\ nextId' = nextId + 1
          /\ UNCHANGED fsOps
       \/ \* lines 93-95: no text (400); lines 104-107: the insert fails for
          \* the timestamp that is NOT NULL (line 69)
          /\ Cardinality(Orphans) < MaxOrphans
          /\ Trim(text) = <<>> \/ timestamp = Undefined
          /\ UNCHANGED <<submissions, nextId, fsOps>>
       \/ \* lines 104-107: the insert fails for the database
          /\ Cardinality(Orphans) < MaxOrphans
          /\ Trim(text) # <<>>
          /\ timestamp # Undefined
          /\ fsOps < MaxFsOps
          /\ fsOps' = fsOps + 1
          /\ UNCHANGED <<submissions, nextId>>
    /\ UNCHANGED <<pipelineVars, discoveryVars,
                   server, publicImages, approvedMemes, patchResponse,
                   everApproved>>

\* add-new-images.js lines 338-388: POST /api/submissions. A request without
\* a file, or with a text that is not valid (whose file lines 350-354 remove
\* again), is answered 400 and stores nothing.
PostSubmissionMemory(file, text, timestamp) ==
    /\ server = "memory"
    /\ Len(submissions) < MaxSubmissions
    /\ file # Undefined
    /\ validateSubmissionText(text)
    /\ memeUploads' = memeUploads \cup {UniqueName(file)}
    /\ \E at \in CreatedAts :
          submissions' = Append(submissions,
              [id            |-> nextId,
               filename      |-> UniqueName(file),
               original_name |-> SanitizeName(Basename(file.originalname)),
               user_text     |-> sanitizeUserText(text),
               timestamp     |-> IF timestamp # Undefined THEN timestamp
                                 ELSE [iso |-> at],
               approved      |-> 0,
               created_at    |-> at])
    /\ nextId' = nextId + 1
    /\ UNCHANGED <<pipelineVars, discoveryVars, fsOps, server, publicImages, approvedMemes,
                   patchResponse, everApproved>>

\* fs.copyFile(srcPath, destPath) to public/images/<original_name> of an
\* approved submission's file (server.js lines 157-171, add-new-images.js
\* lines 414-432): the copy replaces what the name held, or fails and is
\* logged.
CopyApproved(approved, s) ==
    IF approved = 1
    THEN \E copied \in BOOLEAN :
            publicImages' =
                IF copied
                THEN {q \in publicImages : q.name # s.original_name}
                     \cup {[name |-> s.original_name, file |-> s.filename]}
                ELSE publicImages
    ELSE UNCHANGED publicImages

\* The values of approved a server's PATCH takes: server.js line 140,
\* add-new-images.js line 402.
AcceptedValues ==
    IF server = "sqlite" THEN {JsonNumber(0), JsonNumber(1)}
    ELSE {JsonNumber(0), JsonNumber(1), JsonNumber(-1)}

\* What both PATCH handlers do, over the values the server takes.
PatchSubmission(id, approved) ==
    /\ patchResponse = NoResponse
    /\ IF approved \notin AcceptedValues
       THEN /\ patchResponse' = [status |-> 400, id |-> id, approved |-> approved]
            /\ UNCHANGED <<submissions, publicImages, everApproved>>
       ELSE IF \A i \in 1..Len(submissions) : submissions[i].id # id
       THEN /\ patchResponse' = [status |-> 404, id |-> id, approved |-> approved]
            /\ UNCHANGED <<submissions, publicImages, everApproved>>
       ELSE \E i \in 1..Len(submissions) :
               /\ submissions[i].id = id
               /\ submissions' = [submissions EXCEPT ![i].approved = approved.number]
               /\ CopyApproved(approved.number, submissions[i])
               /\ everApproved' = IF approved.number = 1 THEN everApproved \cup {id}
                                  ELSE everApproved
               /\ patchResponse' = [status |-> 200, id |-> id, approved |-> approved]
    /\ UNCHANGED <<pipelineVars, discoveryVars,
                   fsOps, server, nextId, approvedMemes, memeUploads>>

\* server.js lines 136-179: PATCH /api/admin/submissions/:id. A value other
\* than the numbers 0 and 1 is answered 400 (lines 140-142), an id of no row
\* 404 (lines 152-154).
PatchSubmissionSqlite(id, approved) ==
    /\ server = "sqlite"
    /\ PatchSubmission(id, approved)

\* add-new-images.js lines 398-440: PATCH /api/admin/submissions/:id. A value
\* other than the numbers 0, 1 and -1 is answered 400 (lines 402-404), an id
\* of no submission 404 (lines 406-409).
PatchSubmissionMemory(id, approved) ==
    /\ server = "memory"
    /\ PatchSubmission(id, approved)

\* A variant of IsApproved that lists every submission that is not pending.
mutant_IsApproved(s) == s.approved # 0

\* WHERE approved = 1 (server.js line 186), s.approved === 1
\* (add-new-images.js line 484).
IsApproved(s) == s.approved = 1

\* The columns selected (server.js line 184), the fields mapped
\* (add-new-images.js lines 485-489).
MemeOf(s) ==
    [original_name |-> s.original_name, user_text |-> s.user_text,
     timestamp |-> s.timestamp]

\* The places in the table of the approved submissions.
ApprovedPlaces == {i \in 1..Len(submissions) : IsApproved(submissions[i])}

\* ORDER BY created_at DESC (server.js line 187): the orders of the approved
\* rows in which no row comes before one created later.
OrdersByCreatedAtDesc ==
    LET n == Cardinality(ApprovedPlaces)
    IN  { order \in [1..n -> ApprovedPlaces] :
            /\ \A i, j \in 1..n : i # j => order[i] # order[j]
            /\ \A i, j \in 1..n :
                  i < j => submissions[order[i]].created_at
                             >= submissions[order[j]].created_at }

\* .filter(...).reverse() (add-new-images.js lines 484, 490): the approved
\* submissions, the latest pushed first.
RECURSIVE FilterReverse(_)
FilterReverse(n) ==
    IF n = 0 THEN <<>>
    ELSE (IF IsApproved(submissions[n]) THEN <<n>> ELSE <<>>) \o FilterReverse(n - 1)

\* server.js lines 182-198: GET /api/approved-memes.
GetApprovedMemesSqlite ==
    /\ server = "sqlite"
    /\ approvedMemes = NoResponse
    /\ \/ /\ \E order \in OrdersByCreatedAtDesc :
                approvedMemes' =
                    [status |-> 200,
                     rows |-> [i \in 1..Len(order) |-> MemeOf(submissions[order[i]])]]
          /\ UNCHANGED fsOps
       \/ \* lines 191-194: the query fails
          /\ fsOps < MaxFsOps
          /\ fsOps' = fsOps + 1
          /\ approvedMemes' = [status |-> 500]
    /\ UNCHANGED <<pipelineVars, discoveryVars, server, submissions, nextId, publicImages,
                   memeUploads, patchResponse, everApproved>>

\* add-new-images.js lines 482-493: GET /api/approved-memes.
GetApprovedMemesMemory ==
    /\ server = "memory"
    /\ approvedMemes = NoResponse
    /\ LET order == FilterReverse(Len(submissions))
       IN  approvedMemes' =
               [status |-> 200,
                rows |-> [i \in 1..Len(order) |-> MemeOf(submissions[order[i]])]]
    /\ UNCHANGED <<pipelineVars, discoveryVars,
                   fsOps, server, submissions, nextId, publicImages,
                   memeUploads, patchResponse, everApproved>>

\* The admin's client has the response of its PATCH.
PatchResponseReceived ==
    /\ patchResponse # NoResponse
    /\ patchResponse' = NoResponse
    /\ UNCHANGED <<pipelineVars, discoveryVars,
                   fsOps, server, submissions, nextId, publicImages,
                   approvedMemes, memeUploads, everApproved>>

\* The client has the response.
ResponseReceived ==
    /\ approvedMemes # NoResponse
    /\ approvedMemes' = NoResponse
    /\ UNCHANGED <<pipelineVars, discoveryVars,
                   fsOps, server, submissions, nextId, publicImages,
                   memeUploads, patchResponse, everApproved>>

\* One of the two servers runs, with no submission yet (server.js creates the
\* table if it is not there; add-new-images.js line 332-333).
InitSubmissions ==
    /\ PipelineOff
    /\ probe = NoProbe
    /\ server \in {"sqlite", "memory"}
    /\ submissions = <<>>
    /\ nextId = 1
    /\ publicImages = {}
    /\ approvedMemes = NoResponse
    /\ memeUploads = {}
    /\ patchResponse = NoResponse
    /\ everApproved = {}
    /\ DiscoveryOff

NextSubmissions ==
    \/ \E file \in Files, text \in Texts, timestamp \in Timestamps :
          PostSubmissionSqlite(file, text, timestamp)
    \/ \E file \in Files, text \in Texts, timestamp \in Timestamps :
          PostSubmissionMemory(file, text, timestamp)
    \/ \E id \in 1..(MaxSubmissions + 1), approved \in ApprovedValues :
          PatchSubmissionSqlite(id, approved)
    \/ \E id \in 1..(MaxSubmissions + 1), approved \in ApprovedValues :
          PatchSubmissionMemory(id, approved)
    \/ GetApprovedMemesSqlite
    \/ GetApprovedMemesMemory
    \/ ResponseReceived
    \/ PatchResponseReceived

SpecSubmissions == InitSubmissions /\ [][NextSubmissions]_vars

\* The number of places of a sequence that hold the value.
Occurrences(seq, value) == Cardinality({i \in 1..Len(seq) : seq[i] = value})

\* The rows are, in some order, the entries of the submissions whose approved
\* value is 1, one row for each.
ExactlyApproved(rows, subs) ==
    LET approved == {i \in 1..Len(subs) : subs[i].approved = 1}
    IN  /\ Len(rows) = Cardinality(approved)
        /\ \A i \in approved :
              Occurrences(rows, MemeOf(subs[i]))
                = Cardinality({j \in approved : MemeOf(subs[j]) = MemeOf(subs[i])})

\* C20: every submission that is added is stored with approved = 0, and every
\* list GET /api/approved-memes answers with holds exactly the submissions
\* whose approved value is 1 when it is answered.
C20_ApprovalBeforeListing ==
    [][/\ Len(submissions') > Len(submissions) =>
             /\ Len(submissions') = Len(submissions) + 1
             /\ submissions'[Len(submissions')].approved = 0
             /\ SubSeq(submissions', 1, Len(submissions)) = submissions
       /\ (approvedMemes = NoResponse /\ approvedMemes'.status = 200) =>
             ExactlyApproved(approvedMemes'.rows, submissions')]_vars

\* Two submissions were approved and their files copied; one was then set to
\* -1, and the list answered holds the other alone.
C20_Witness ==
    /\ Len(submissions) = 2
    /\ submissions[1].approved = -1
    /\ submissions[2].approved = 1
    /\ {submissions[1].original_name, submissions[2].original_name}
          \subseteq {q.name : q \in publicImages}
    /\ submissions[1].original_name # submissions[2].original_name
    /\ approvedMemes = [status |-> 200, rows |-> <<MemeOf(submissions[2])>>]

\* The step answers a PATCH /api/admin/submissions/:id request, and not with
\* a failure of the server.
PatchAnswered ==
    /\ patchResponse = NoResponse
    /\ patchResponse' # NoResponse
    /\ patchResponse'.status # 500

\* The three values of the approved column.
ApprovalStates == {JsonNumber(0), JsonNumber(1), JsonNumber(-1)}

\* C21: a PATCH with approved 0, 1 or -1 for an existing submission is
\* answered with success and the value is recorded on that submission; a
\* PATCH with any other value is answered 400 and changes no submission.
C21_PatchTakesThreeValues ==
    [][PatchAnswered =>
         LET id == patchResponse'.id
             approved == patchResponse'.approved
         IN  /\ (approved \in ApprovalStates
                   /\ \E i \in 1..Len(submissions) : submissions[i].id = id) =>
                   /\ patchResponse'.status = 200
                   /\ \A i \in 1..Len(submissions) :
                         submissions[i].id = id =>
                            submissions'[i].approved = approved.number
             /\ approved \notin ApprovalStates =>
                   /\ patchResponse'.status = 400
                   /\ submissions' = submissions]_vars

\* The part of C21 that holds of both servers: a value other than 0, 1 and -1
\* is answered 400 and changes no submission, and a value answered with
\* success is recorded on the submission.
C21_PatchRefusesOtherValues ==
    [][PatchAnswered =>
         LET id == patchResponse'.id
             approved == patchResponse'.approved
         IN  /\ approved \notin ApprovalStates =>
                   /\ patchResponse'.status = 400
                   /\ submissions' = submissions
             /\ patchResponse'.status = 200 =>
                   \A i \in 1..Len(submissions) :
                       submissions[i].id = id =>
                          submissions'[i].approved = approved.number]_vars

\* app.use('/uploads', express.static(uploadsDir)) (server.js line 201,
\* add-new-images.js line 496): the files GET /uploads/<name> answers with.
StaticUploads == memeUploads

\* app.use('/images', express.static(public/images)) (add-new-images.js line
\* 499; server.js has no such route): the files GET /images/<name> answers
\* with, each the copy of an uploaded file.
StaticImages ==
    IF server = "memory" THEN {q.file : q \in publicImages} ELSE {}

\* The image file of the submission can be had through a public route.
Retrievable(s) == s.filename \in StaticUploads \cup StaticImages

\* C22: the image file of a submission that was never approved cannot be had
\* through any public route of the server.
C22_ApprovalBeforeDisplay ==
    \A i \in 1..Len(submissions) :
        submissions[i].id \notin everApproved => ~Retrievable(submissions[i])

\* The part of C22 about public/images: it holds the copy of no submission
\* that was never approved.
C22_PublicImagesApprovedOnly ==
    \A q \in publicImages :
        \A i \in 1..Len(submissions) :
            submissions[i].filename = q.file => submissions[i].id \in everApproved

\* C23: two distinct submissions never have the same stored file, and no
\* step replaces or removes a file that a submission has in uploads/ or the
\* copy that a submission has in public/images/.
C23_StoredFilesNeverCollide ==
    [][/\ \A i, j \in 1..Len(submissions) :
             i # j => submissions[i].filename # submissions[j].filename
       /\ \A i \in 1..Len(submissions) :
             submissions[i].filename \in memeUploads =>
                submissions[i].filename \in memeUploads'
       /\ \A q \in publicImages : q \in publicImages']_vars

\* The part of C23 about uploads/: the stored names of distinct submissions
\* differ and no stored file is replaced or removed.
C23_UploadsNeverCollide ==
    [][/\ \A i, j \in 1..Len(submissions) :
             i # j => submissions[i].filename # submissions[j].filename
       /\ memeUploads \subseteq memeUploads']_vars

\* The file of the watcher event has a record in the manifest whose processed
\* time stamp is not older than the file's modification time.
UpToDate(e) ==
    /\ uploads[e.file].exists
    /\ MapHas(imageLibrary, generateImageName(e.file))
    /\ AlreadyProcessed(MapGet(imageLibrary, generateImageName(e.file)),
                        uploads[e.file].mtime)

\* C24: a watcher event that is delivered for a file whose record is up to
\* date starts no processing and leaves the manifest as it is.
C24_WatcherSkipsUnchanged ==
    [][\A e \in events :
         (phase = "watching" /\ events' = events \ {e} /\ UpToDate(e)) =>
            /\ tasks' = tasks
            /\ imageLibrary' = imageLibrary]_vars

\* round(num/den) of the exact quotient, a half going up.
RoundHalfUp(num, den) == (2 * num + den) \div (2 * den)

\* The output the rule gives for a source in a box: the width clamped and the
\* height derived when the source is the wider, else the height clamped and
\* the width derived.
Clamped(w, h, box) ==
    IF w * box.height > box.width * h
    THEN [width |-> box.width, height |-> RoundHalfUp(box.width * h, w)]
    ELSE [width |-> RoundHalfUp(box.height * w, h), height |-> box.height]

\* The same, where a derived dimension that lies exactly half way between
\* two integers may be either of them.
ClampedUpToTies(size, w, h, box) ==
    IF w * box.height > box.width * h
    THEN /\ size.width = box.width
         /\ \/ size.height = RoundHalfUp(box.width * h, w)
            \/ IsTie(box.width * h, w) /\ size.height = (box.width * h) \div w
    ELSE /\ size.height = box.height
         /\ \/ size.width = RoundHalfUp(box.height * w, h)
            \/ IsTie(box.height * w, h) /\ size.width = (box.height * w) \div h

\* The two examples: 1600x1200 gives 1024x768, 2000x1000 gives 1024x512.
ResizeExamples ==
    /\ (Computed /\ probe.width = 1600 /\ probe.height = 1200) =>
          probe.dimensions.optimized = [width |-> 1024, height |-> 768]
    /\ (Computed /\ probe.width = 2000 /\ probe.height = 1000) =>
          probe.dimensions.optimized = [width |-> 1024, height |-> 512]

\* C25: for a source that exceeds the box in some dimension the output is
\* the clamped dimension and the other rounded from the exact proportion, in
\* the 1024x768 box and in the thumbnail box; with the two examples.
C25_ResizeTieBreak ==
    /\ (Computed /\ ~Fits(probe, maxDimensions)) =>
          probe.dimensions.optimized = Clamped(probe.width, probe.height, maxDimensions)
    /\ (Computed /\ ~Fits(probe, thumbnailDimensions)) =>
          probe.dimensions.thumbnail =
              Clamped(probe.width, probe.height, thumbnailDimensions)
    /\ ResizeExamples

\* C25, amended: the same, except that a derived dimension whose exact value
\* lies half way between two integers may be rounded to either of them.
C25_ResizeTieBreakUpToTies ==
    /\ (Computed /\ ~Fits(probe, maxDimensions)) =>
          ClampedUpToTies(probe.dimensions.optimized, probe.width, probe.height,
                          maxDimensions)
    /\ (Computed /\ ~Fits(probe, thumbnailDimensions)) =>
          ClampedUpToTies(probe.dimensions.thumbnail, probe.width, probe.height,
                          thumbnailDimensions)
    /\ ResizeExamples

\* A source of 2048x93: the exact height 46.5 is half way, the width is
\* clamped to 1024 and the height recorded is 46.
C25_Witness ==
    /\ Computed
    /\ probe.width = 2048 /\ probe.height = 93
    /\ probe.dimensions.optimized = [width |-> 1024, height |-> 46]

\* Call t is between its upsert and the end of its write of the manifest.
Persisting(t) == tasks[t].pc \in {"saving", "writing"}

\* Every record of the in-memory manifest is in the manifest file.
OnDisk ==
    /\ libraryFile.kind = "json"
    /\ \A i \in 1..Len(imageLibrary) :
          \E j \in 1..Len(libraryFile.value) :
              libraryFile.value[j] = imageLibrary[i].value

\* No two calls for different files are between upsert and end of write at
\* the same time.
PersistsSerialized ==
    \A t, u \in TaskIds :
        (Persisting(t) /\ Persisting(u)) => tasks[t].file = tasks[u].file

\* Every operation of the environment so far wrote a file of uploads/ that is
\* still there (the files a run starts with are "small"): none was a refusal.
NothingRefused ==
    fsOps = Cardinality({f \in world : uploads[f].exists /\ uploads[f].content = "large"})

\* With nothing in flight, nothing pending and nothing refused, the manifest
\* file holds every record in memory.
QuiescentOnDisk ==
    (/\ phase = "watching"
     /\ \A t \in TaskIds : ~InFlight(t)
     /\ events = {}
     /\ NothingRefused
     /\ imageLibrary # <<>>) => OnDisk

\* C26: the upsert-then-persist of one file never overlaps that of another,
\* and once all processing has finished without a failed write the manifest
\* file holds every record of the in-memory manifest.
C26_PersistSerialized == PersistsSerialized /\ QuiescentOnDisk

\* The record and the two derivative files are those of content c.
DerivedFrom(record, outputName, c) ==
    /\ record.originalSize = ContentOf[c].size
    /\ record.dimensions.original =
          [width |-> ContentOf[c].width, height |-> ContentOf[c].height]
    /\ record.optimizedSize = EncodedBytes[c].optimized
    /\ record.thumbnailSize = EncodedBytes[c].thumbnail
    /\ publicDir[outputName] = c
    /\ thumbnailsDir[outputName] = c

\* Nothing is in flight and no watcher event is pending.
Quiescent ==
    /\ phase = "watching"
    /\ ~unhandled
    /\ events = {}
    /\ \A t \in TaskIds : ~InFlight(t)

\* C27: once nothing is in flight and nothing is pending, a record that the
\* sweep would skip, of a file written during the run that shares its image
\* name with no other file, is with its derivative files that of the file's
\* current content.
C27_NoStaleResultRemains ==
    Quiescent =>
        \A f \in world :
            LET outputName == generateImageName(PathJoin(uploadsDir, f))
            IN  (/\ uploads[f].exists
                 /\ uploads[f].mtime > 1
                 /\ \A g \in world \ {f} :
                       generateImageName(PathJoin(uploadsDir, g)) # outputName
                 /\ MapHas(imageLibrary, outputName)
                 /\ AlreadyProcessed(MapGet(imageLibrary, outputName),
                                     uploads[f].mtime)) =>
                    DerivedFrom(MapGet(imageLibrary, outputName), outputName,
                                uploads[f].content)

(***************************************************************************)
(* The pipeline under the scheduling of the event loop                     *)
(***************************************************************************)
\* Node runs every continuation that is ready: each step of initialize()
\* (lines 23-46) and of a processImage call that stays enabled is taken.  A
\* queued watcher event is delivered when a handler is free, and it is free
\* again and again.  What users and the file system do is under no
\* obligation.
\* WF_vars(processImage(t)) written out: a processImage call that has begun
\* and not yet returned always has its next step enabled, so that
\* ENABLED <<processImage(t)>>_vars is Running /\ Processing(t).
FairProcessImage(t) ==
    []<>~(Running /\ Processing(t)) \/ []<><<processImage(t)>>_vars

Fairness ==
    /\ WF_vars(loadImageLibrary)
    /\ WF_vars(processExistingImages)
    /\ WF_vars(startWatching)
    /\ \A t \in TaskIds : FairProcessImage(t)
    /\ SF_vars(\E e \in events : OnWatcherEvent(e))
    /\ \A h \in Handlers : WF_vars(HandlerEnds(h))

\* The run the startup claim is about: an uploads directory that is empty or
\* holds two images, no library file yet, and users who only add files.
InitLive ==
    /\ Init
    /\ world = {aPng, b1Gif}
    /\ libraryFile = AbsentFile

NextLive ==
    \/ loadImageLibrary
    \/ processExistingImages
    \/ startWatching
    \/ \E t \in TaskIds : processImage(t)
    \/ \E e \in events : OnWatcherEvent(e)
    \/ \E h \in Handlers : HandlerEnds(h)
    \/ \E f \in FileNames : CreateFile(f, "small")

SpecLive == InitLive /\ [][NextLive]_vars /\ Fairness

\* processImage is running on the file.
InProcessing(f) == \E t \in TaskIds : InFlight(t) /\ tasks[t].file = f

\* A qualifying file of the uploads directory that the loaded library holds
\* no record of and that no processImage call is working on.
Unprocessed(f) ==
    /\ Running
    /\ phase # "load"
    /\ uploads[f].exists
    /\ Qualifying(f)
    /\ ~MapHas(imageLibrary, generateImageName(PathJoin(uploadsDir, f)))
    /\ ~InProcessing(f)

\* C28: a qualifying file that is in the uploads directory during the run
\* and has no record yet is eventually taken into processing in the same run
\* (unless it is deleted first or the process dies), whether it was created
\* before the sweep listed the directory, between the listing and
\* startWatching, or after it.
C28_NoFileMissedAtStartup ==
    \A f \in FileNames :
        Unprocessed(f) ~> (InProcessing(f) \/ ~uploads[f].exists \/ ~Running)

\* The files the sweep has listed are taken into processing or skipped with
\* their record: the gap is only in what appears after the listing.
C28_ListedFilesAreVisited ==
    \A i \in 1..2 :
        (phase = "sweep" /\ Len(imageFiles) >= i /\ sweepIndex <= i)
            ~> (\/ phase # "sweep"
                \/ sweepIndex > i
                \/ (sweepIndex = i /\ InFlight(SweepTask)))

(***************************************************************************)
(* ImageDiscoveryService (src/imageConfig.js)                              *)
(***************************************************************************)
\* The keys of a Map, or the names of a list of images.
NamesOf(images) == {images[i] : i \in 1..Len(images)}

\* Map.set(name, img): a new key goes to the end, a key the Map holds keeps
\* its place.
CacheSet(keys, name) == IF name \in NamesOf(keys) THEN keys ELSE Append(keys, name)

\* images.forEach(img => this.cache.set(img.name, img))
RECURSIVE CacheSetAll(_, _)
CacheSetAll(keys, images) ==
    IF images = <<>> THEN keys
    ELSE CacheSetAll(CacheSet(keys, Head(images)), Tail(images))

\* Lines 173-206: the images of images.json by name; the fallback list, which
\* is empty (lines 212-215), when the response is not ok or fetch throws.
discoverImages(ok) == IF ok THEN listing ELSE <<>>

\* Line 237: the images whose name the cache did not hold.
NewImages(currentImages, cachedImageNames) ==
    SelectSeq(currentImages, LAMBDA n : n \notin cachedImageNames)

\* Lines 245-250: the oldest entries beyond maxCacheSize are deleted.
CacheCleanup(keys) ==
    IF Len(keys) > maxCacheSize
    THEN SubSeq(keys, Len(keys) - maxCacheSize + 1, Len(keys))
    ELSE keys

\* Lines 253-257: what was cached and is no longer listed is deleted.
RemoveDeleted(keys, cachedImageNames, currentImageNames) ==
    SelectSeq(keys, LAMBDA n : ~(n \in cachedImageNames /\ n \notin currentImageNames))

\* Lines 233-257: the cache after a check that found currentImages.
CacheAfterCheck(keys, currentImages) ==
    RemoveDeleted(CacheCleanup(CacheSetAll(keys, currentImages)),
                  NamesOf(keys), NamesOf(currentImages))

\* Lines 327-333: every callback is called with the new images.
Notify(newImages) ==
    [n \in ImageNames |->
        IF n \in NamesOf(newImages) /\ reported[n] < 2
        THEN reported[n] + 1 ELSE reported[n]]

FreeCall(c) == pending[c].kind = "none"

\* Lines 222-232: the rate limit, this.lastCheck = now, and the await of
\* discoverImages.  A call inside the interval returns [] at once.
BeginCheck(kind) ==
    IF clock - lastCheck < checkInterval
    THEN UNCHANGED <<lastCheck, pending>>
    ELSE /\ lastCheck' = clock
         /\ \E c \in Calls :
               /\ FreeCall(c)
               /\ pending' = [pending EXCEPT ![c] = [kind |-> kind]]

\* Lines 308-337: start() up to the return; the initial discovery is left
\* pending and the interval timer is set.
start ==
    /\ ~isRunning
    /\ Len(timers) < MaxTimers
    /\ isRunning' = TRUE
    /\ \E c \in Calls :
          /\ FreeCall(c)
          /\ pending' = [pending EXCEPT ![c] = [kind |-> "start"]]
    /\ timers' = Append(timers, [due |-> clock + checkInterval, live |-> TRUE])
    /\ intervalId' = Len(timers) + 1
    /\ UNCHANGED <<listing, clock, cache, lastCheck, callbacks, reported>>
    /\ UNCHANGED <<pipelineVars, fsOps, submissionVars>>

\* Lines 342-349.
stop ==
    /\ isRunning' = FALSE
    /\ IF intervalId # NoTimer
       THEN /\ timers' = [timers EXCEPT ![intervalId].live = FALSE]
            /\ intervalId' = NoTimer
       ELSE UNCHANGED <<timers, intervalId>>
    /\ UNCHANGED <<listing, clock, cache, lastCheck, callbacks, pending, reported>>
    /\ UNCHANGED <<pipelineVars, fsOps, submissionVars>>

\* Lines 322-324: the interval callback up to its await.
TimerFires(i) ==
    /\ i \in 1..Len(timers)
    /\ timers[i].live
    /\ clock >= timers[i].due
    /\ timers' = [timers EXCEPT ![i].due = clock + checkInterval]
    /\ IF isRunning THEN BeginCheck("tick") ELSE UNCHANGED <<lastCheck, pending>>
    /\ UNCHANGED <<listing, clock, cache, callbacks, isRunning, intervalId, reported>>
    /\ UNCHANGED <<pipelineVars, fsOps, submissionVars>>

\* Lines 221-232: checkForNewImages called by the page itself.
checkForNewImages ==
    /\ BeginCheck("check")
    /\ UNCHANGED <<listing, clock, cache, callbacks, isRunning, intervalId, timers,
                   reported>>
    /\ UNCHANGED <<pipelineVars, fsOps, submissionVars>>

\* Lines 274-276: getCachedImages on an empty cache awaits discoverImages.
getCachedImages ==
    /\ cache = <<>>
    /\ \E c \in Calls :
          /\ FreeCall(c)
          /\ pending' = [pending EXCEPT ![c] = [kind |-> "get"]]
    /\ UNCHANGED <<listing, clock, cache, lastCheck, callbacks, isRunning, intervalId,
                   timers, reported>>
    /\ UNCHANGED <<pipelineVars, fsOps, submissionVars>>

\* The fetch of a pending call answers and the call runs to its end: lines
\* 315-319 for start, 277-280 for getCachedImages, 233-263 for
\* checkForNewImages, and lines 325-334 after it in the interval callback.
Resolve(c, ok) ==
    /\ c \in Calls
    /\ ~FreeCall(c)
    /\ LET currentImages == discoverImages(ok)
           newImages == NewImages(currentImages, NamesOf(cache))
       IN  /\ cache' = IF pending[c].kind \in {"start", "get"}
                       THEN CacheSetAll(cache, currentImages)
                       ELSE CacheAfterCheck(cache, currentImages)
           /\ reported' = IF pending[c].kind = "tick" /\ newImages # <<>> /\ callbacks > 0
                          THEN Notify(newImages)
                          ELSE reported
    /\ pending' = [pending EXCEPT ![c] = NoCall]
    /\ UNCHANGED <<listing, clock, lastCheck, callbacks, isRunning, intervalId, timers>>
    /\ UNCHANGED <<pipelineVars, fsOps, submissionVars>>

\* Lines 290-292.
onNewImages ==
    /\ callbacks < MaxCallbacks
    /\ callbacks' = callbacks + 1
    /\ UNCHANGED <<listing, clock, cache, lastCheck, isRunning, intervalId, timers,
                   pending, reported>>
    /\ UNCHANGED <<pipelineVars, fsOps, submissionVars>>

\* Lines 298-303.
removeCallback ==
    /\ callbacks > 0
    /\ callbacks' = callbacks - 1
    /\ UNCHANGED <<listing, clock, cache, lastCheck, isRunning, intervalId, timers,
                   pending, reported>>
    /\ UNCHANGED <<pipelineVars, fsOps, submissionVars>>

\* The site publishes an image: images.json lists it from now on.
ListImage(n) ==
    /\ n \in ImageNames \ NamesOf(listing)
    /\ listing' = Append(listing, n)
    /\ UNCHANGED <<clock, cache, lastCheck, callbacks, isRunning, intervalId, timers,
                   pending, reported>>
    /\ UNCHANGED <<pipelineVars, fsOps, submissionVars>>

\* The site withdraws an image; a later listing of it is a new stay.
UnlistImage(n) ==
    /\ n \in NamesOf(listing)
    /\ listing' = SelectSeq(listing, LAMBDA k : k # n)
    /\ reported' = [reported EXCEPT ![n] = 0]
    /\ UNCHANGED <<clock, cache, lastCheck, callbacks, isRunning, intervalId, timers,
                   pending>>
    /\ UNCHANGED <<pipelineVars, fsOps, submissionVars>>

\* Time passes.
ClockAdvances ==
    /\ clock < MaxClock
    /\ clock' = clock + 1
    /\ UNCHANGED <<listing, cache, lastCheck, callbacks, isRunning, intervalId, timers,
                   pending, reported>>
    /\ UNCHANGED <<pipelineVars, fsOps, submissionVars>>

\* The page has loaded; images.json lists nothing, one image, or more images
\* than the cache may hold.
InitDiscovery ==
    /\ PipelineOff
    /\ probe = NoProbe
    /\ SubmissionsOff
    /\ listing \in {<<>>, <<1>>, [i \in 1..MaxImages |-> i]}
    /\ clock = PageLoad
    /\ Constructed

NextDiscovery ==
    \/ start
    \/ stop
    \/ \E i \in 1..MaxTimers : TimerFires(i)
    \/ checkForNewImages
    \/ getCachedImages
    \/ \E c \in Calls, ok \in BOOLEAN : Resolve(c, ok)
    \/ onNewImages
    \/ removeCallback
    \/ \E n \in ImageNames : ListImage(n)
    \/ \E n \in ImageNames : UnlistImage(n)
    \/ ClockAdvances

SpecDiscovery == InitDiscovery /\ [][NextDiscovery]_vars

\* The calls of the claim have returned: nothing awaits.
Settled == \A c \in Calls : FreeCall(c)

\* The cache holds at most maxCacheSize images once the calls have returned.
CacheWithinLimit == Settled => Len(cache) <= maxCacheSize

\* No image was reported to the callbacks twice during one stay in the
\* listing.
ReportedAtMostOnce == \A n \in ImageNames : reported[n] <= 1

\* C29: after any sequence of start(), getCachedImages() and
\* checkForNewImages() calls the cache holds at most maxCacheSize images,
\* whatever the number of images listed, and an image that stays listed is
\* reported to the new-image callbacks at most once.
C29_CacheLimitedReportedOnce == CacheWithinLimit /\ ReportedAtMostOnce

\* What the code does keep: a check that has run to its end leaves at most
\* maxCacheSize images in the cache.
C29_CheckLeavesCacheWithinLimit ==
    [][\A c \in Calls :
          (pending[c].kind \in {"tick", "check"} /\ pending'[c] = NoCall)
              => Len(cache') <= maxCacheSize]_vars

\* The callbacks are called in this step.
CallbacksInvoked == listing' = listing /\ reported' # reported

\* The interval timers that are set.
LiveTimers == {i \in 1..Len(timers) : timers[i].live}

\* No callback is called while the service is stopped.
NoCallbackAfterStop == [][CallbacksInvoked => isRunning]_vars

\* At most one polling timer is set.
C30_NoSecondTimer == Cardinality(LiveTimers) <= 1

\* C30: after stop() has returned no registered callback is invoked, even
\* when a periodic check was awaiting its fetch when stop() was called; and
\* start() while already running creates no second polling timer.
C30_StopSilencesCallbacks == NoCallbackAfterStop /\ []C30_NoSecondTimer

=============================================================================
